---- MODULE Spec2Model ----
(***************************************************************************)
(* Model of Lumix::Universe (src/src/engine/universe/universe.cpp): the    *)
(* entity slot table with its intrusive free list, the transform store,   *)
(* the hierarchy table, the name table, the component masks and the       *)
(* events fired by each call.                                             *)
(*                                                                         *)
(* Entities are 0-based indices as in the code; INVALID_ENTITY is -1.      *)
(* The arrays are sequences, so slot i of an Array is element i + 1.       *)
(* Every handler is an operator from a universe record to a universe      *)
(* record; an action applies one handler to the current state.            *)
(***************************************************************************)
EXTENDS Integers, Sequences, FiniteSets, TLC

VARIABLES
    m_entities,        \* Array<EntityData>: valid, prev, next, name, hierarchy, components
    m_transforms,      \* Array<Transform>: world transforms, same index as m_entities
    m_hierarchy,       \* Array<Hierarchy>: entity, parent, first_child, next_sibling, local_transform
    m_names,           \* Array<EntityName>: entity, name
    m_first_free_slot, \* head of the free list, -1 when empty
    live,              \* ghost: indices handed out by create/emplace and not destroyed since
    events,            \* delegates invoked and callbacks dispatched by the last call, in order
    last,              \* the last call: operation, arguments, returned entity
    status,            \* "ok", or how the process died: "assert", "overflow"
    asserts,           \* whether ASSERT is compiled in (debug build)
    watch              \* the entry points whose calls the observer records in last and events

vars == <<m_entities, m_transforms, m_hierarchy, m_names, m_first_free_slot,
          live, events, last, status, asserts, watch>>

----------------------------------------------------------------------------
(* Bounds of the model *)

\* the slot table never grows beyond this many slots
MaxEntities == 3

\* positions are integers modulo PosMod, scales are the units modulo PosMod
PosMod == 3

\* ComponentType::MAX_TYPES_COUNT, scaled down
MAX_TYPES_COUNT == 2

INVALID_ENTITY == -1

Types == 0 .. (MAX_TYPES_COUNT - 1)

\* physics WHEEL_TYPE: its destroy callback never calls onComponentDestroyed
WheelType == MAX_TYPES_COUNT - 1

Names == {"a", "b"}

----------------------------------------------------------------------------
(* Transform algebra: position in Z_PosMod, rotation a half turn or none   *)
(* (it negates positions), scale a unit of Z_PosMod.  An exact group.      *)

Positions == 0 .. (PosMod - 1)
Rotations == {0, 1}
Scales == {s \in 1 .. (PosMod - 1) : \E t \in 1 .. (PosMod - 1) : (s * t) % PosMod = 1}

Transform(p, r, s) == [pos |-> p, rot |-> r, scale |-> s]

Identity == Transform(0, 0, 1)

\* the scale -1 that emplaceEntity writes into synthesized slots
MinusOne == PosMod - 1

Rotate(r, v) == IF r = 0 THEN v % PosMod ELSE (PosMod - (v % PosMod)) % PosMod

ScaleInv(s) == CHOOSE t \in 1 .. (PosMod - 1) : (s * t) % PosMod = 1

\* (p * c).pos = p.pos + p.rot.rotate(c.pos) * p.scale, rot = p.rot * c.rot,
\* scale = p.scale * c.scale
TMul(p, c) ==
    Transform((p.pos + Rotate(p.rot, c.pos) * p.scale) % PosMod,
              (p.rot + c.rot) % 2,
              (p.scale * c.scale) % PosMod)

\* Transform::inverted
TInv(t) ==
    Transform(Rotate(t.rot, (PosMod - t.pos) * ScaleInv(t.scale)),
              t.rot,
              ScaleInv(t.scale))

----------------------------------------------------------------------------
(* The universe as one record, and its accessors *)

U == [entities |-> m_entities, transforms |-> m_transforms,
      hierarchy |-> m_hierarchy, names |-> m_names,
      first_free |-> m_first_free_slot, events |-> <<>>,
      status |-> "ok", asserts |-> asserts, ret |-> INVALID_ENTITY,
      junk |-> [prev |-> -1, next |-> -1, local |-> Identity]]

\* the values the call finds in the links of memory it does not initialise
WithJunk(u, j) == [u EXCEPT !.junk = j]

Ent(u, i) == u.entities[i + 1]
Tr(u, i) == u.transforms[i + 1]
Hier(u, h) == u.hierarchy[h + 1]
Size(u) == Len(u.entities)

SetEnt(u, i, f, v) == [u EXCEPT !.entities[i + 1][f] = v]
SetTr(u, i, t) == [u EXCEPT !.transforms[i + 1] = t]
SetHier(u, h, f, v) == [u EXCEPT !.hierarchy[h + 1][f] = v]

Die(u, how) == [u EXCEPT !.status = how]

\* an ASSERT that checks nothing in either build
ASSERTCompiledOut(u, cond) == u

\* ASSERT(cond): aborts a debug build, compiles to nothing otherwise
ASSERT(u, cond) == IF cond \/ ~u.asserts THEN u ELSE Die(u, "assert")

\* one entry of the call's event trace, with what a listener sees of entity e
Event(u, name, e, t) ==
    [ev |-> name, e |-> e, t |-> t,
     valid |-> Ent(u, e).valid,
     hier |-> Ent(u, e).hierarchy,
     mask |-> Ent(u, e).components,
     name |-> Ent(u, e).name,
     linked |-> \E i \in 1 .. Len(u.hierarchy) :
                   e \in {u.hierarchy[i].entity, u.hierarchy[i].parent,
                          u.hierarchy[i].first_child, u.hierarchy[i].next_sibling},
     head |-> u.first_free]

Fire(u, name, e, t) == [u EXCEPT !.events = Append(@, Event(u, name, e, t))]

----------------------------------------------------------------------------
(* Hierarchy reads *)

getParent(u, entity) ==
    LET idx == Ent(u, entity).hierarchy
    IN  IF idx < 0 THEN INVALID_ENTITY ELSE Hier(u, idx).parent

getFirstChild(u, entity) ==
    LET idx == Ent(u, entity).hierarchy
    IN  IF idx < 0 THEN INVALID_ENTITY ELSE Hier(u, idx).first_child

getNextSibling(u, entity) ==
    LET idx == Ent(u, entity).hierarchy
    IN  IF idx < 0 THEN INVALID_ENTITY ELSE Hier(u, idx).next_sibling

\* a walk over a forest of n nodes never nests deeper than n; deeper means the
\* links loop and the real walk never returns
Fuel(u) == Len(u.hierarchy) + 1

\* the loop of isDescendant from sibling e on: "T", "F", or "X" when it never returns
RECURSIVE DescendantWalk(_, _, _, _)
DescendantWalk(u, e, descendant, fuel) ==
    IF e = INVALID_ENTITY THEN "F"
    ELSE IF fuel = 0 THEN "X"
    ELSE IF e = descendant THEN "T"
    ELSE LET r == DescendantWalk(u, getFirstChild(u, e), descendant, fuel - 1)
         IN  IF r # "F" THEN r
             ELSE DescendantWalk(u, getNextSibling(u, e), descendant, fuel - 1)

isDescendant(u, ancestor, descendant) ==
    DescendantWalk(u, getFirstChild(u, ancestor), descendant, Fuel(u))

----------------------------------------------------------------------------
(* setParent *)

\* collectGarbage without line 501: a node that still has children is removed
collectGarbageOfParents(u, entity) ==
    LET hidx == Ent(u, entity).hierarchy
        h == Hier(u, hidx)
        lastn == u.hierarchy[Len(u.hierarchy)]
        u1 == SetEnt(u, lastn.entity, "hierarchy", hidx)
        u2 == SetEnt(u1, entity, "hierarchy", -1)
        u3 == [u2 EXCEPT !.hierarchy[hidx + 1] = lastn]
    IN  IF h.parent # INVALID_ENTITY THEN u
        ELSE [u3 EXCEPT !.hierarchy = SubSeq(@, 1, Len(@) - 1)]

\* collectGarbage without line 504: the owner of the moved node is not told
collectGarbageNoPatch(u, entity) ==
    LET hidx == Ent(u, entity).hierarchy
        h == Hier(u, hidx)
        lastn == u.hierarchy[Len(u.hierarchy)]
        u2 == SetEnt(u, entity, "hierarchy", -1)
        u3 == [u2 EXCEPT !.hierarchy[hidx + 1] = lastn]
    IN  IF h.parent # INVALID_ENTITY THEN u
        ELSE IF h.first_child # INVALID_ENTITY THEN u
        ELSE [u3 EXCEPT !.hierarchy = SubSeq(@, 1, Len(@) - 1)]

\* the lambda collectGarbage of setParent
collectGarbage(u, entity) ==
    LET hidx == Ent(u, entity).hierarchy
        h == Hier(u, hidx)
        lastn == u.hierarchy[Len(u.hierarchy)]
        u1 == SetEnt(u, lastn.entity, "hierarchy", hidx)
        u2 == SetEnt(u1, entity, "hierarchy", -1)
        u3 == [u2 EXCEPT !.hierarchy[hidx + 1] = lastn]
    IN  IF h.parent # INVALID_ENTITY THEN u
        ELSE IF h.first_child # INVALID_ENTITY THEN u
        ELSE [u3 EXCEPT !.hierarchy = SubSeq(@, 1, Len(@) - 1)]

\* the walk "x = &...next_sibling" of setParent: the entity whose next_sibling
\* is child, from x on; INVALID_ENTITY when the chain ends first, -2 when the
\* chain loops and the walk never ends
RECURSIVE SiblingBefore(_, _, _, _)
SiblingBefore(u, x, child, fuel) ==
    IF x = INVALID_ENTITY THEN INVALID_ENTITY
    ELSE IF fuel = 0 THEN -2
    ELSE IF getNextSibling(u, x) = child THEN x
    ELSE SiblingBefore(u, getNextSibling(u, x), child, fuel - 1)

\* UnlinkChild whose loop stops after the first child
UnlinkChildAtHeadOnly(u, old_parent, child) ==
    LET ph == Ent(u, old_parent).hierarchy
    IN  IF Hier(u, ph).first_child = child
        THEN SetHier(u, ph, "first_child", getNextSibling(u, child))
        ELSE u

\* lines 518-528: take child out of old_parent's child list
UnlinkChild(u, old_parent, child) ==
    LET ph == Ent(u, old_parent).hierarchy
        first == Hier(u, ph).first_child
        before == SiblingBefore(u, first, child, Fuel(u))
    IN  IF first = child
        THEN SetHier(u, ph, "first_child", getNextSibling(u, child))
        ELSE IF before = -2 THEN Die(u, "hang")
        ELSE IF before # INVALID_ENTITY
        THEN SetHier(u, Ent(u, before).hierarchy, "next_sibling", getNextSibling(u, child))
        ELSE u

\* m_hierarchy.emplace() for entity e, all links invalid; the local transform of
\* a fresh node is not initialised by the code
EmplaceNode(u, e) ==
    LET u1 == SetEnt(u, e, "hierarchy", Len(u.hierarchy))
    IN  [u1 EXCEPT !.hierarchy = Append(@,
            [entity |-> e, parent |-> INVALID_ENTITY, first_child |-> INVALID_ENTITY,
             next_sibling |-> INVALID_ENTITY, local_transform |-> u.junk.local])]

\* lines 510-544: detach child from its old parent, or give it a node
DetachOrEmplace(u, new_parent, child) ==
    LET child_idx == Ent(u, child).hierarchy
        old_parent == Hier(u, child_idx).parent
        u1 == UnlinkChild(u, old_parent, child)
        u2 == SetHier(u1, child_idx, "parent", INVALID_ENTITY)
        u3 == SetHier(u2, child_idx, "next_sibling", INVALID_ENTITY)
    IN  IF child_idx >= 0
        THEN IF old_parent # INVALID_ENTITY THEN collectGarbage(u3, old_parent) ELSE u
        ELSE IF new_parent # INVALID_ENTITY THEN EmplaceNode(u, child)
        ELSE u

\* LinkChild with line 562 composing the parent's transform instead of its inverse
LinkChildNoInverse(u, new_parent, child) ==
    LET u1 == IF Ent(u, new_parent).hierarchy < 0 THEN EmplaceNode(u, new_parent) ELSE u
        new_parent_idx == Ent(u1, new_parent).hierarchy
        child_idx == Ent(u, child).hierarchy
        u2 == SetHier(u1, child_idx, "parent", new_parent)
        u3 == SetHier(u2, child_idx, "local_transform",
                      TMul(Tr(u2, new_parent), Tr(u2, child)))
        u4 == SetHier(u3, child_idx, "next_sibling", Hier(u3, new_parent_idx).first_child)
    IN  IF child_idx < 0 THEN Die(u, "oob")
        ELSE SetHier(u4, new_parent_idx, "first_child", child)

\* lines 546-566: link child as the first child of new_parent
LinkChild(u, new_parent, child) ==
    LET u1 == IF Ent(u, new_parent).hierarchy < 0 THEN EmplaceNode(u, new_parent) ELSE u
        new_parent_idx == Ent(u1, new_parent).hierarchy
        child_idx == Ent(u, child).hierarchy
        u2 == SetHier(u1, child_idx, "parent", new_parent)
        u3 == SetHier(u2, child_idx, "local_transform",
                      TMul(TInv(Tr(u2, new_parent)), Tr(u2, child)))
        u4 == SetHier(u3, child_idx, "next_sibling", Hier(u3, new_parent_idx).first_child)
    IN  IF child_idx < 0 THEN Die(u, "oob")
        ELSE SetHier(u4, new_parent_idx, "first_child", child)

logError(u) == [u EXCEPT !.events = Append(@, Event(u, "logError", 0, -1))]

setParent(u, new_parent, child) ==
    LET cyc == IF new_parent # INVALID_ENTITY
               THEN isDescendant(u, child, new_parent) ELSE "F"
        u1 == DetachOrEmplace(u, new_parent, child)
    IN  IF cyc = "X" THEN Die(u, "overflow")
        ELSE IF cyc = "T" THEN logError(u)
        ELSE IF new_parent # INVALID_ENTITY THEN LinkChild(u1, new_parent, child)
        ELSE IF Ent(u1, child).hierarchy >= 0 THEN collectGarbage(u1, child)
        ELSE u1

----------------------------------------------------------------------------
(* Transforms *)

getTransform(u, entity) == Tr(u, entity)

getPosition(u, entity) == Tr(u, entity).pos

getRotation(u, entity) == Tr(u, entity).rot

getScale(u, entity) == Tr(u, entity).scale

\* TransformChildren without the recursive call of line 108: children are moved,
\* their own children are not
RECURSIVE TransformChildrenShallow(_, _, _, _)
TransformChildrenShallow(u, my_transform, child, fuel) ==
    LET child_idx == Ent(u, child).hierarchy
        abs_tr == TMul(my_transform, Hier(u, child_idx).local_transform)
        u1 == Fire(SetTr(u, child, abs_tr), "entityTransformed", child, -1)
    IN  IF child = INVALID_ENTITY \/ u.status # "ok" THEN u
        ELSE IF fuel = 0 THEN Die(u, "overflow")
        ELSE TransformChildrenShallow(u1, my_transform, Hier(u1, child_idx).next_sibling,
                                      fuel - 1)

\* transformEntity, and its loop over the children from child on
RECURSIVE transformEntity(_, _, _, _)
RECURSIVE TransformChildren(_, _, _, _)

\* transformEntity invoking the delegate after the children have been moved
transformEntityChildrenFirst(u, entity, update_local, fuel) ==
    LET hierarchy_idx == Ent(u, entity).hierarchy
        h == Hier(u, hierarchy_idx)
        my_transform == getTransform(u, entity)
        u2 == IF update_local /\ h.parent # INVALID_ENTITY
              THEN SetHier(u, hierarchy_idx, "local_transform",
                           TMul(TInv(getTransform(u, h.parent)), my_transform))
              ELSE u
        u3 == IF hierarchy_idx < 0 THEN u
              ELSE TransformChildren(u2, my_transform, h.first_child, fuel - 1)
    IN  IF fuel = 0 THEN Die(u, "overflow")
        ELSE IF u3.status # "ok" THEN u3
        ELSE Fire(u3, "entityTransformed", entity, -1)

\* transformEntity storing the new local transform in the node of the parent
transformEntityLocalOfParent(u, entity, update_local, fuel) ==
    LET hierarchy_idx == Ent(u, entity).hierarchy
        u1 == Fire(u, "entityTransformed", entity, -1)
        h == Hier(u1, hierarchy_idx)
        my_transform == getTransform(u1, entity)
        u2 == IF update_local /\ h.parent # INVALID_ENTITY
              THEN SetHier(u1, Ent(u1, h.parent).hierarchy, "local_transform",
                           TMul(TInv(getTransform(u1, h.parent)), my_transform))
              ELSE u1
    IN  IF fuel = 0 THEN Die(u, "overflow")
        ELSE IF hierarchy_idx < 0 THEN u1
        ELSE TransformChildren(u2, my_transform, h.first_child, fuel - 1)

transformEntity(u, entity, update_local, fuel) ==
    LET hierarchy_idx == Ent(u, entity).hierarchy
        u1 == Fire(u, "entityTransformed", entity, -1)
        h == Hier(u1, hierarchy_idx)
        my_transform == getTransform(u1, entity)
        u2 == IF update_local /\ h.parent # INVALID_ENTITY
              THEN SetHier(u1, hierarchy_idx, "local_transform",
                           TMul(TInv(getTransform(u1, h.parent)), my_transform))
              ELSE u1
    IN  IF fuel = 0 THEN Die(u, "overflow")
        ELSE IF hierarchy_idx < 0 THEN u1
        ELSE TransformChildren(u2, my_transform, h.first_child, fuel - 1)

TransformChildren(u, my_transform, child, fuel) ==
    LET child_idx == Ent(u, child).hierarchy
        abs_tr == TMul(my_transform, Hier(u, child_idx).local_transform)
        u1 == transformEntity(SetTr(u, child, abs_tr), child, FALSE, fuel - 1)
    IN  IF child = INVALID_ENTITY \/ u.status # "ok" THEN u
        ELSE IF fuel = 0 THEN Die(u, "overflow")
        ELSE IF u1.status # "ok" THEN u1
        ELSE TransformChildren(u1, my_transform, Hier(u1, child_idx).next_sibling, fuel - 1)

TransformFuel(u) == 2 * Len(u.hierarchy) + 2

setTransform(u, entity, transform) ==
    transformEntity(SetTr(u, entity, transform), entity, TRUE, TransformFuel(u))

\* setPosition passing update_local = false at line 218
setPositionKeepsLocal(u, entity, pos) ==
    transformEntity(SetTr(u, entity, [Tr(u, entity) EXCEPT !.pos = pos]),
                    entity, FALSE, TransformFuel(u))

setPosition(u, entity, pos) ==
    transformEntity(SetTr(u, entity, [Tr(u, entity) EXCEPT !.pos = pos]),
                    entity, TRUE, TransformFuel(u))

setRotation(u, entity, rot) ==
    transformEntity(SetTr(u, entity, [Tr(u, entity) EXCEPT !.rot = rot]),
                    entity, TRUE, TransformFuel(u))

setScale(u, entity, scale) ==
    transformEntity(SetTr(u, entity, [Tr(u, entity) EXCEPT !.scale = scale]),
                    entity, TRUE, TransformFuel(u))

\* lines 154-161 of setTransformKeepChildren: the local transform of each child
RECURSIVE KeepChildren(_, _, _, _)
KeepChildren(u, my_transform, child, fuel) ==
    LET child_idx == Ent(u, child).hierarchy
        u1 == SetHier(u, child_idx, "local_transform",
                      TMul(TInv(my_transform), getTransform(u, child)))
    IN  IF child = INVALID_ENTITY THEN u
        ELSE IF fuel = 0 THEN Die(u, "overflow")
        ELSE KeepChildren(u1, my_transform, Hier(u1, child_idx).next_sibling, fuel - 1)

\* setTransformKeepChildren moving the children along, as setTransform does
setTransformTakingChildren(u, entity, transform) == setTransform(u, entity, transform)

setTransformKeepChildren(u, entity, transform) ==
    LET u0 == SetTr(u, entity, transform)
        hierarchy_idx == Ent(u0, entity).hierarchy
        u1 == Fire(u0, "entityTransformed", entity, -1)
        h == Hier(u1, hierarchy_idx)
        u2 == IF h.parent # INVALID_ENTITY
              THEN SetHier(u1, hierarchy_idx, "local_transform",
                           TMul(TInv(getTransform(u1, h.parent)), transform))
              ELSE u1
    IN  IF hierarchy_idx < 0 THEN u1
        ELSE KeepChildren(u2, transform, h.first_child, Fuel(u))

\* with no parent the debug build stops at the ASSERT; the release build goes on
\* to read m_transforms[-1], whatever lies before the array
updateGlobalTransform(u, entity) ==
    LET h == Hier(u, Ent(u, entity).hierarchy)
        u1 == ASSERT(u, h.parent # INVALID_ENTITY)
        parent_tr == IF h.parent # INVALID_ENTITY THEN getTransform(u, h.parent)
                     ELSE u.junk.local
    IN  IF u1.status # "ok" THEN u1
        ELSE setTransform(u1, entity, TMul(parent_tr, h.local_transform))

setLocalPosition(u, entity, pos) ==
    LET hierarchy_idx == Ent(u, entity).hierarchy
    IN  IF hierarchy_idx < 0 THEN setPosition(u, entity, pos)
        ELSE updateGlobalTransform(
                 [u EXCEPT !.hierarchy[hierarchy_idx + 1].local_transform.pos = pos], entity)

setLocalRotation(u, entity, rot) ==
    LET hierarchy_idx == Ent(u, entity).hierarchy
    IN  IF hierarchy_idx < 0 THEN setRotation(u, entity, rot)
        ELSE updateGlobalTransform(
                 [u EXCEPT !.hierarchy[hierarchy_idx + 1].local_transform.rot = rot], entity)

setLocalTransform(u, entity, transform) ==
    LET hierarchy_idx == Ent(u, entity).hierarchy
    IN  IF hierarchy_idx < 0 THEN setTransform(u, entity, transform)
        ELSE updateGlobalTransform(SetHier(u, hierarchy_idx, "local_transform", transform),
                                   entity)

getLocalTransform(u, entity) ==
    LET hierarchy_idx == Ent(u, entity).hierarchy
    IN  IF hierarchy_idx < 0 THEN getTransform(u, entity)
        ELSE Hier(u, hierarchy_idx).local_transform

getLocalScale(u, entity) ==
    LET hierarchy_idx == Ent(u, entity).hierarchy
    IN  IF hierarchy_idx < 0 THEN getScale(u, entity)
        ELSE Hier(u, hierarchy_idx).local_transform.scale

----------------------------------------------------------------------------
(* Component dispatch *)

hasComponent(u, entity, t) == t \in Ent(u, entity).components

\* onComponentCreated setting the bit of the next type as well
onComponentCreatedTwoBits(u, entity, t) ==
    LET u1 == SetEnt(u, entity, "components",
                     Ent(u, entity).components \cup {t, (t + 1) % MAX_TYPES_COUNT})
    IN  Fire(u1, "componentAdded", entity, t)

onComponentCreated(u, entity, t) ==
    LET u1 == SetEnt(u, entity, "components", Ent(u, entity).components \cup {t})
    IN  Fire(u1, "componentAdded", entity, t)

\* onComponentDestroyed clearing the whole mask
onComponentDestroyedClearsAll(u, entity, t) ==
    LET old_mask == Ent(u, entity).components
        u1 == ASSERT(u, old_mask # {})
        u2 == SetEnt(u1, entity, "components", {})
    IN  IF u1.status # "ok" THEN u1 ELSE Fire(u2, "componentDestroyed", entity, t)

onComponentDestroyed(u, entity, t) ==
    LET old_mask == Ent(u, entity).components
        mask == old_mask \ {t}
        u1 == ASSERT(u, old_mask # mask)
        u2 == SetEnt(u1, entity, "components", mask)
    IN  IF u1.status # "ok" THEN u1 ELSE Fire(u2, "componentDestroyed", entity, t)

\* the create method bound to type t: the module attaches its payload and calls
\* back, or declines when the entity already has one (createDistanceJoint)
CreateMethod(u, t, entity) ==
    LET u1 == Fire(u, "create", entity, t)
    IN  IF hasComponent(u, entity, t) THEN u1 ELSE onComponentCreated(u1, entity, t)

\* the destroy method bound to type t: destroyWheel is ASSERT(false) and never
\* calls back, the others detach their payload and call onComponentDestroyed
DestroyMethod(u, t, entity) ==
    LET u1 == Fire(u, "destroy", entity, t)
    IN  IF t = WheelType THEN ASSERT(u1, FALSE)
        ELSE onComponentDestroyed(u1, entity, t)

createComponent(u, t, entity) == CreateMethod(u, t, entity)

\* the create method bound to type t when the module declines for a reason of
\* its own (createDistanceJoint: the entity holds a joint of some joint type)
DecliningCreateMethod(u, t, entity) == Fire(u, "create", entity, t)

\* createComponent acting on what the declining method left undone
createComponentSetsBit(u, t, entity) ==
    LET u1 == DecliningCreateMethod(u, t, entity)
    IN  SetEnt(u1, entity, "components", Ent(u1, entity).components \cup {t})

\* createComponent when the method bound to t declines
createComponentDeclined(u, t, entity) == DecliningCreateMethod(u, t, entity)

destroyComponent(u, entity, t) == DestroyMethod(u, t, entity)

----------------------------------------------------------------------------
(* Names *)

\* setEntityName taking a new slot whether or not the entity has one
setEntityNameAlwaysAllocates(u, entity, name) ==
    [SetEnt(u, entity, "name", Len(u.names))
        EXCEPT !.names = Append(@, [entity |-> entity, name |-> name])]

setEntityName(u, entity, name) ==
    LET name_idx == Ent(u, entity).name
        u1 == SetEnt(u, entity, "name", Len(u.names))
    IN  IF name_idx < 0
        THEN IF name = "" THEN u
             ELSE [u1 EXCEPT !.names = Append(@, [entity |-> entity, name |-> name])]
        ELSE [u EXCEPT !.names[name_idx + 1].name = name]

getEntityName(u, entity) ==
    LET name_idx == Ent(u, entity).name
    IN  IF name_idx < 0 THEN "" ELSE u.names[name_idx + 1].name

\* Array::eraseFast: the last element takes the place of element idx
eraseFast(seq, idx) ==
    LET n == Len(seq)
    IN  IF idx + 1 = n THEN SubSeq(seq, 1, n - 1)
        ELSE SubSeq([seq EXCEPT ![idx + 1] = seq[n]], 1, n - 1)

----------------------------------------------------------------------------
(* Creation *)

\* lines 373-380, shared by createEntity and (with pos 0, rot identity) emplaceEntity
\* InitEntity without line 378: the component mask keeps what the slot held
InitEntityKeepsMask(u, idx, tr) ==
    LET u1 == SetTr(u, idx, tr)
        u2 == SetEnt(u1, idx, "name", -1)
        u3 == SetEnt(u2, idx, "hierarchy", -1)
        u5 == SetEnt(u3, idx, "valid", TRUE)
    IN  Fire(u5, "entityCreated", idx, -1)

\* lines 373-380 of createEntity, 309-318 of emplaceEntity
InitEntity(u, idx, tr) ==
    LET u1 == SetTr(u, idx, tr)
        u2 == SetEnt(u1, idx, "name", -1)
        u3 == SetEnt(u2, idx, "hierarchy", -1)
        u4 == SetEnt(u3, idx, "components", {})
        u5 == SetEnt(u4, idx, "valid", TRUE)
    IN  Fire(u5, "entityCreated", idx, -1)

\* m_entities.emplace() / m_transforms.emplace(): a slot whose fields hold whatever
\* the memory held.  createEntity writes every field but prev and next before
\* anything reads it, so only those two are inputs; the others hold a value that
\* no initialised slot has
EmplaceSlot(u) ==
    [u EXCEPT !.entities = Append(@, [valid |-> FALSE, prev |-> u.junk.prev,
                                      next |-> u.junk.next, name |-> 0,
                                      hierarchy |-> 0, components |-> Types]),
              !.transforms = Append(@, Transform(0, 0, MinusOne))]

\* PopFreeSlot without line 365: the head stays where it was
PopFreeSlotKeepsHead(u) ==
    LET idx == u.first_free
        nxt == Ent(u, idx).next
        u1 == IF nxt >= 0 THEN SetEnt(u, nxt, "prev", -1) ELSE u
    IN  [u1 EXCEPT !.ret = idx]

\* lines 359-366: pop the head of the free list
PopFreeSlot(u) ==
    LET idx == u.first_free
        nxt == Ent(u, idx).next
        u1 == IF nxt >= 0 THEN SetEnt(u, nxt, "prev", -1) ELSE u
    IN  [u1 EXCEPT !.first_free = nxt, !.ret = idx]

\* createEntity invoking m_entity_created before lines 373-379 have run
createEntityFiresEarly(u, position, rotation) ==
    LET u1 == IF u.first_free >= 0 THEN PopFreeSlot(u)
              ELSE [EmplaceSlot(u) EXCEPT !.ret = Size(u)]
        u2 == Fire(u1, "entityCreated", u1.ret, -1)
        u3 == SetTr(u2, u1.ret, Transform(position, rotation, 1))
        u4 == SetEnt(u3, u1.ret, "name", -1)
        u5 == SetEnt(u4, u1.ret, "hierarchy", -1)
        u6 == SetEnt(u5, u1.ret, "components", {})
    IN  SetEnt(u6, u1.ret, "valid", TRUE)

createEntity(u, position, rotation) ==
    LET u1 == IF u.first_free >= 0 THEN PopFreeSlot(u)
              ELSE [EmplaceSlot(u) EXCEPT !.ret = Size(u)]
    IN  InitEntity(u1, u1.ret, Transform(position, rotation, 1))

\* SynthesizeSlot without lines 291-295: the new slot is not pushed on the free list
SynthesizeSlotUnlinked(u) ==
    [u EXCEPT !.entities = Append(@, [valid |-> FALSE, prev |-> -1,
                                      next |-> u.first_free, name |-> -1,
                                      hierarchy |-> -1, components |-> {}]),
              !.transforms = Append(@, Transform(0, 0, MinusOne))]

\* lines 281-296: one turn of the loop that synthesizes free slots
SynthesizeSlot(u) ==
    LET n == Size(u)
        u1 == [u EXCEPT !.entities = Append(@, [valid |-> FALSE, prev |-> -1,
                                                next |-> u.first_free, name |-> -1,
                                                hierarchy |-> -1, components |-> {}]),
                        !.transforms = Append(@, Transform(0, 0, MinusOne))]
        u2 == IF u.first_free >= 0 THEN SetEnt(u1, u.first_free, "prev", n) ELSE u1
    IN  [u2 EXCEPT !.first_free = n]

RECURSIVE GrowTo(_, _)
GrowTo(u, index) == IF Size(u) <= index THEN GrowTo(SynthesizeSlot(u), index) ELSE u

\* UnlinkFreeSlot without lines 301-304: the predecessor keeps pointing at the slot
UnlinkFreeSlotKeepsPrev(u, index) ==
    LET u1 == IF u.first_free = index
              THEN [u EXCEPT !.first_free = Ent(u, index).next] ELSE u
        n == Ent(u1, index).next
    IN  IF n >= 0 THEN SetEnt(u1, n, "prev", Ent(u1, index).prev) ELSE u1

\* lines 297-308: take the slot out of the doubly-linked free list
UnlinkFreeSlot(u, index) ==
    LET u1 == IF u.first_free = index
              THEN [u EXCEPT !.first_free = Ent(u, index).next] ELSE u
        p == Ent(u1, index).prev
        u2 == IF p >= 0 THEN SetEnt(u1, p, "next", Ent(u1, index).next) ELSE u1
        n == Ent(u2, index).next
    IN  IF n >= 0 THEN SetEnt(u2, n, "prev", Ent(u2, index).prev) ELSE u2

emplaceEntity(u, entity) ==
    InitEntity(UnlinkFreeSlot(GrowTo(u, entity), entity), entity, Identity)

----------------------------------------------------------------------------
(* Destruction *)

\* DetachChildren without the loop of lines 390-393: the children stay attached
DetachChildrenSkipped(u, entity, fuel) == u

\* lines 390-393: detach the first child until there is none
RECURSIVE DetachChildren(_, _, _)
DetachChildren(u, entity, fuel) ==
    LET first_child == getFirstChild(u, entity)
    IN  IF first_child = INVALID_ENTITY \/ u.status # "ok" THEN u
        ELSE IF fuel = 0 THEN Die(u, "overflow")
        ELSE DetachChildren(setParent(u, INVALID_ENTITY, first_child), entity, fuel - 1)

\* lines 397-409: the destroy callback of every type whose bit is set in the copy
\* of the mask, which is read again after each callback
RECURSIVE DestroyComponents(_, _, _, _)
DestroyComponents(u, entity, i, mask) ==
    IF i >= MAX_TYPES_COUNT \/ u.status # "ok" THEN u
    ELSE IF i \in mask
    THEN LET u1 == DestroyMethod(u, i, entity)
             new_mask == Ent(u1, entity).components
             u2 == IF u1.status = "ok" THEN ASSERT(u1, mask # new_mask) ELSE u1
         IN  DestroyComponents(u2, entity, i + 1, new_mask)
    ELSE DestroyComponents(u, entity, i + 1, mask)

\* ReleaseName without line 424: the entry stays in the table
ReleaseNameKeepsEntry(u, entity) ==
    IF Ent(u, entity).name >= 0 THEN SetEnt(u, entity, "name", -1) ELSE u

\* ReleaseName without line 423: the owner of the moved entry is not told
ReleaseNameNoPatch(u, entity) ==
    LET name_idx == Ent(u, entity).name
        u2 == [u EXCEPT !.names = eraseFast(@, name_idx)]
    IN  IF name_idx >= 0 THEN SetEnt(u2, entity, "name", -1) ELSE u

\* lines 421-426: give the name slot back
ReleaseName(u, entity) ==
    LET name_idx == Ent(u, entity).name
        back == u.names[Len(u.names)]
        u1 == SetEnt(u, back.entity, "name", name_idx)
        u2 == [u1 EXCEPT !.names = eraseFast(@, name_idx)]
    IN  IF name_idx >= 0 THEN SetEnt(u2, entity, "name", -1) ELSE u

\* PushFreeSlot linking the slot behind the head of the free list
PushFreeSlotBehindHead(u, entity) ==
    LET head == u.first_free
        second == IF head >= 0 THEN Ent(u, head).next ELSE -1
        u1 == SetEnt(u, entity, "next", second)
        u2 == SetEnt(u1, entity, "prev", head)
        u3 == SetEnt(u2, entity, "hierarchy", -1)
        u4 == SetEnt(u3, entity, "valid", FALSE)
        u5 == IF head >= 0 THEN SetEnt(u4, head, "next", entity) ELSE u4
        u6 == IF second >= 0 THEN SetEnt(u5, second, "prev", entity) ELSE u5
        u7 == ReleaseName(u6, entity)
    IN  IF head >= 0 THEN u7 ELSE [u7 EXCEPT !.first_free = entity]

\* lines 411-428: push the slot on the free list
PushFreeSlot(u, entity) ==
    LET u1 == SetEnt(u, entity, "next", u.first_free)
        u2 == SetEnt(u1, entity, "prev", -1)
        u3 == SetEnt(u2, entity, "hierarchy", -1)
        u4 == SetEnt(u3, entity, "valid", FALSE)
        u5 == IF u.first_free >= 0 THEN SetEnt(u4, u.first_free, "prev", entity) ELSE u4
        u6 == ReleaseName(u5, entity)
    IN  [u6 EXCEPT !.first_free = entity]

\* destroyEntity invoking m_entity_destroyed before lines 411-428
destroyEntityFiresEarly(u, entity) ==
    LET u0 == ASSERT(u, Ent(u, entity).valid)
        u1 == DetachChildren(u0, entity, Fuel(u0))
        u2 == IF u1.status = "ok" THEN setParent(u1, INVALID_ENTITY, entity) ELSE u1
        u3 == DestroyComponents(u2, entity, 0, Ent(u2, entity).components)
    IN  IF u3.status # "ok" THEN u3
        ELSE PushFreeSlot(Fire(u3, "entityDestroyed", entity, -1), entity)

destroyEntity(u, entity) ==
    LET u0 == ASSERT(u, Ent(u, entity).valid)
        u1 == DetachChildren(u0, entity, Fuel(u0))
        u2 == IF u1.status = "ok" THEN setParent(u1, INVALID_ENTITY, entity) ELSE u1
        u3 == DestroyComponents(u2, entity, 0, Ent(u2, entity).components)
    IN  IF u3.status # "ok" THEN u3
        ELSE Fire(PushFreeSlot(u3, entity), "entityDestroyed", entity, -1)

----------------------------------------------------------------------------
(* Serialization of the skeleton.  A stream is the sequence of the items      *)
(* written; a block written from memory is one item.                          *)

\* lines 682-685: entity and string of every name entry from the i-th on
RECURSIVE WriteNames(_, _)
WriteNames(names, i) ==
    IF i > Len(names) THEN <<>>
    ELSE <<names[i].entity, names[i].name>> \o WriteNames(names, i + 1)

\* the stream serialize writes
Stream(u) ==
    <<Size(u)>>
    \o (IF Size(u) > 0 THEN <<u.entities, u.transforms>> ELSE <<>>)
    \o <<Len(u.names)>>
    \o WriteNames(u.names, 1)
    \o <<u.first_free>>
    \o <<Len(u.hierarchy)>>
    \o (IF Len(u.hierarchy) > 0 THEN <<u.hierarchy>> ELSE <<>>)

serialize(u) == [u EXCEPT !.ret = Stream(u)]

\* lines 707-713: read n name entries from position pos of stream s
RECURSIVE ReadNames(_, _, _, _)
ReadNames(u, s, pos, n) ==
    LET entity == s[pos]
        u1 == [u EXCEPT !.names = Append(@, [entity |-> entity, name |-> s[pos + 1]])]
        u2 == SetEnt(u1, entity, "name", Len(u1.names) - 1)
    IN  IF n = 0 THEN u ELSE ReadNames(u2, s, pos + 2, n - 1)

\* ReadTail without line 715: the free-list head is skipped and not stored
ReadTailDropsHead(u, s, pos) ==
    LET count == s[pos + 1]
    IN  [u EXCEPT !.hierarchy = IF count > 0 THEN SubSeq(s[pos + 2], 1, count) ELSE <<>>]

\* lines 715-719: the free-list head and the hierarchy table, from position pos
ReadTail(u, s, pos) ==
    LET count == s[pos + 1]
    IN  [u EXCEPT !.first_free = s[pos],
                  !.hierarchy = IF count > 0 THEN SubSeq(s[pos + 2], 1, count) ELSE <<>>]

deserialize(u, s) ==
    LET count == s[1]
        u1 == IF count > 0
              THEN [u EXCEPT !.entities = SubSeq(s[2], 1, count),
                             !.transforms = SubSeq(s[3], 1, count)]
              ELSE [u EXCEPT !.entities = <<>>, !.transforms = <<>>]
        pos == IF count > 0 THEN 4 ELSE 2
        n == s[pos]
    IN  ReadTail(ReadNames(u1, s, pos + 1, n), s, pos + 1 + 2 * n)

\* a Universe as its constructor leaves it
Fresh(u) ==
    [u EXCEPT !.entities = <<>>, !.transforms = <<>>, !.hierarchy = <<>>,
              !.names = <<>>, !.first_free = -1]

----------------------------------------------------------------------------
(* A listener that re-enters the universe *)

\* transformEntity(entity, true) when the entityTransformed listener destroys
\* victim during the invoke of line 93.  hierarchy_idx was read at line 92,
\* before the invoke; the listener's setParent may have moved or popped nodes.
\* An index beyond the table is undefined behaviour: the bounds check of the
\* array traps, or the popped slot, which still holds a copy of the node, is
\* read and written in place of the node
ResumeTransformEntity(u2, hierarchy_idx, entity, trap) ==
    LET my_transform == getTransform(u2, entity)
        beyond == hierarchy_idx >= Len(u2.hierarchy)
        h == IF beyond THEN Hier(u2, Ent(u2, entity).hierarchy)
             ELSE Hier(u2, hierarchy_idx)
        u3 == IF h.parent # INVALID_ENTITY /\ ~beyond
              THEN SetHier(u2, hierarchy_idx, "local_transform",
                           TMul(TInv(getTransform(u2, h.parent)), my_transform))
              ELSE u2
    IN  IF u2.status # "ok" \/ hierarchy_idx < 0 THEN u2
        ELSE IF beyond /\ trap THEN Die(u2, "oob")
        ELSE TransformChildren(u3, my_transform, h.first_child, TransformFuel(u3))

\* lines 92-93: the index is read, then the listener runs; the rest of
\* transformEntity resumes with the index read before
transformEntityListening(u, entity, victim, trap) ==
    ResumeTransformEntity(destroyEntity(Fire(u, "entityTransformed", entity, -1), victim),
                          Ent(u, entity).hierarchy, entity, trap)

\* a listener that reads, when it is invoked, the world transform, the parent
\* and the local transform of every entity: what it finds
Observe(u) ==
    [u EXCEPT !.ret = [entities |-> u.entities, transforms |-> u.transforms,
                       hierarchy |-> u.hierarchy]]

\* lines 92-93 with that listener; the rest of transformEntity follows
transformEntityObserved(u, entity) ==
    ResumeTransformEntity(Observe(Fire(u, "entityTransformed", entity, -1)),
                          Ent(u, entity).hierarchy, entity, TRUE)

setTransformObserved(u, entity, transform) ==
    transformEntityObserved(SetTr(u, entity, transform), entity)

setPositionObserved(u, entity, pos) ==
    transformEntityObserved(SetTr(u, entity, [Tr(u, entity) EXCEPT !.pos = pos]), entity)

\* setPosition with such a listener
setPositionListening(u, entity, pos, victim, trap) ==
    transformEntityListening(SetTr(u, entity, [Tr(u, entity) EXCEPT !.pos = pos]),
                             entity, victim, trap)

----------------------------------------------------------------------------
(* Prefab instantiation.  A prefab is the parsed blob: its version, its    *)
(* entity count, and one entry per entity with the index of the parent     *)
(* entry (-1 for the invalid GUID), the authored local transform and the   *)
(* list of component types.                                                *)

\* enum PrefabVersion is declared outside the universe sources:
\* FIRST, WITH_HIERARCHY, LAST
PrefabVersion_WITH_HIERARCHY == 1
PrefabVersion_LAST == 2

\* a scene's deserialize method: reads the component, then reports it created
DeserializeMethod(u, entity, t) ==
    onComponentCreated(Fire(u, "deserialize", entity, t), entity, t)

deserializeComponent(u, entity, t) == DeserializeMethod(u, entity, t)

\* PrefabEntityGUIDMap::get; the comparison is unsigned, so the invalid GUID is large
PrefabEntityGUIDMapGet(entities, guid) ==
    IF guid < 0 \/ guid >= Len(entities) THEN INVALID_ENTITY ELSE entities[guid + 1]

\* lines 762-765: one createEntity at the identity per entry
RECURSIVE PreallocateEntities(_, _, _)
PreallocateEntities(u, count, entities) ==
    LET u1 == createEntity(u, 0, 0)
    IN  IF Len(entities) >= count \/ u.status # "ok"
        THEN [u |-> u, entities |-> entities]
        ELSE PreallocateEntities(u1, count, Append(entities, u1.ret))

\* lines 787-795: the component list of one entry
RECURSIVE DeserializeComponents(_, _, _)
DeserializeComponents(u, entity, comps) ==
    IF comps = <<>> \/ u.status # "ok" THEN u
    ELSE DeserializeComponents(deserializeComponent(u, entity, Head(comps)),
                               entity, Tail(comps))

\* lines 783-784 with setLocalTransform left out
LinkEntryKeepsWorld(u, parent, entry, entity) == setParent(u, parent, entity)

\* lines 783-784: u is the universe after setParent
SetAuthoredLocal(u, entry, entity) ==
    IF u.status # "ok" THEN u ELSE setLocalTransform(u, entity, entry.local)

\* lines 783-784: setParent, then setLocalTransform
LinkEntry(u, parent, entry, entity) ==
    SetAuthoredLocal(setParent(u, parent, entity), entry, entity)

\* lines 772-786: u is the universe after setTransform at line 771
PlaceEntry(u, version, parent, entry, entity) ==
    IF u.status = "ok" /\ version > PrefabVersion_WITH_HIERARCHY /\ parent # INVALID_ENTITY
    THEN LinkEntry(u, parent, entry, entity)
    ELSE u

\* lines 768-797: one turn of the loop over the entries
PrefabEntry(u, version, entities, entry, entity, tr) ==
    DeserializeComponents(
        PlaceEntry(setTransform(u, entity, tr), version,
                   PrefabEntityGUIDMapGet(entities, entry.parent), entry, entity),
        entity, entry.comps)

\* line 766: the loop ends with the blob or with the count, whichever is first
RECURSIVE PrefabEntries(_, _, _, _, _)
PrefabEntries(u, prefab, entities, entity_idx, tr) ==
    IF entity_idx >= Len(prefab.entries) \/ entity_idx >= prefab.count \/ u.status # "ok"
    THEN u
    ELSE PrefabEntries(PrefabEntry(u, prefab.version, entities,
                                   prefab.entries[entity_idx + 1],
                                   entities[entity_idx + 1], tr),
                       prefab, entities, entity_idx + 1, tr)

\* line 799: entities[0] of an empty array is out of range
ReturnRoot(u, entities) ==
    IF u.status # "ok" THEN u
    ELSE IF entities = <<>> THEN Die(u, "oob")
    ELSE [u EXCEPT !.ret = entities[1]]

\* lines 766-799: pre holds the universe and the entities after lines 762-765
ReadEntries(pre, prefab, tr) ==
    ReturnRoot(PrefabEntries(pre.u, prefab, pre.entities, 0, tr), pre.entities)

\* the version test of line 753 made after the entities are allocated
RejectAllocated(pre) == [pre.u EXCEPT !.ret = INVALID_ENTITY]

\* instantiatePrefab reading the version after the entities are allocated
instantiatePrefabChecksLate(u, prefab, pos, rot, scale) ==
    IF prefab.version > PrefabVersion_LAST
    THEN RejectAllocated(PreallocateEntities(u, prefab.count, <<>>))
    ELSE ReadEntries(PreallocateEntities(u, prefab.count, <<>>), prefab,
                     Transform(pos, rot, scale))

\* logError at line 755 writes to the log, which is no table of the universe
instantiatePrefab(u, prefab, pos, rot, scale) ==
    IF prefab.version > PrefabVersion_LAST THEN [u EXCEPT !.ret = INVALID_ENTITY]
    ELSE ReadEntries(PreallocateEntities(u, prefab.count, <<>>), prefab,
                     Transform(pos, rot, scale))

----------------------------------------------------------------------------
(* findByName *)

\* lines 254-261 scanning from the first child on whatever it is named
ScanChildrenAnyName(u, e, name, fuel) == e

\* lines 254-261: the scan of the sibling list from e on
RECURSIVE ScanChildren(_, _, _, _)
ScanChildren(u, e, name, fuel) ==
    LET data == Ent(u, e)
    IN  IF e = INVALID_ENTITY THEN INVALID_ENTITY
        ELSE IF fuel = 0 THEN -2
        ELSE IF data.name >= 0 /\ u.names[data.name + 1].name = name THEN e
        ELSE ScanChildren(u, Hier(u, data.hierarchy).next_sibling, name, fuel - 1)

\* lines 266-272 returning the owner of the first entry of that name
ScanNamesAnyPlace(u, name, i) ==
    IF \E k \in 1 .. Len(u.names) : u.names[k].name = name
    THEN u.names[CHOOSE k \in 1 .. Len(u.names) :
                    /\ u.names[k].name = name
                    /\ \A j \in 1 .. (k - 1) : u.names[j].name # name].entity
    ELSE INVALID_ENTITY

\* lines 266-272: the scan of the name table from entry i on
RECURSIVE ScanNames(_, _, _)
ScanNames(u, name, i) ==
    LET entity == u.names[i + 1].entity
        data == Ent(u, entity)
    IN  IF i >= Len(u.names) THEN INVALID_ENTITY
        ELSE IF u.names[i + 1].name = name
                /\ (data.hierarchy < 0 \/ Hier(u, data.hierarchy).parent = INVALID_ENTITY)
        THEN entity
        ELSE ScanNames(u, name, i + 1)

\* findByName; a sibling list that loops keeps the scan from returning
findByName(u, parent, name) ==
    LET h_idx == Ent(u, parent).hierarchy
        found == ScanChildren(u, Hier(u, h_idx).first_child, name, Fuel(u))
    IN  IF parent # INVALID_ENTITY
        THEN IF h_idx < 0 THEN [u EXCEPT !.ret = INVALID_ENTITY]
             ELSE IF found = -2 THEN Die(u, "hang")
             ELSE [u EXCEPT !.ret = found]
        ELSE [u EXCEPT !.ret = ScanNames(u, name, 0)]

----------------------------------------------------------------------------
(* Component reads.  A ComponentUID is its type index, -1 for the invalid   *)
(* one; its entity is the argument.                                        *)

\* lines 819-826 and 834-841: the first type from i on whose bit is set
RECURSIVE ScanMask(_, _)
ScanMask(mask, i) ==
    IF i >= MAX_TYPES_COUNT THEN -1
    ELSE IF i \in mask THEN i
    ELSE ScanMask(mask, i + 1)

getFirstComponent(u, entity) == ScanMask(Ent(u, entity).components, 0)

\* getNextComponent starting at the type of cmp itself
getNextComponentFromSame(u, entity, cmp) == ScanMask(Ent(u, entity).components, cmp)

getNextComponent(u, entity, cmp) == ScanMask(Ent(u, entity).components, cmp + 1)

getComponent(u, entity, t) == IF t \in Ent(u, entity).components THEN t ELSE -1

getComponentsMask(u, entity) == Ent(u, entity).components

----------------------------------------------------------------------------
(* cloneEntity *)

\* a scene's serialize method: writes the payload, touches nothing of the universe
SerializeMethod(u, t, entity) == Fire(u, "serialize", entity, t)

serializeComponent(u, t, entity) == SerializeMethod(u, t, entity)

\* lines 331-349: the loop over the components of entity, cmp the current one
RECURSIVE CloneComponents(_, _, _, _)
RECURSIVE CloneComponentsOn(_, _, _, _)
CloneComponentsOn(u, entity, clone, cmp) ==
    CloneComponents(u, entity, clone, getNextComponent(u, entity, cmp))

CloneComponents(u, entity, clone, cmp) ==
    IF cmp < 0 \/ u.status # "ok" THEN u
    ELSE CloneComponentsOn(
             deserializeComponent(serializeComponent(u, cmp, entity), clone, cmp),
             entity, clone, cmp)

\* line 328 left out: the clone is not given the parent
AttachCloneNowhere(u, clone, scale, parent) == setScale(u, clone, scale)

\* lines 327-328: setScale, then setParent
AttachClone(u, clone, scale, parent) ==
    setParent(setScale(u, clone, scale), parent, clone)

\* lines 327-350: u is the universe after createEntity at line 326
CloneInto(u, entity, clone, tr, parent) ==
    [CloneComponents(AttachClone(u, clone, tr.scale, parent), entity, clone,
                     getFirstComponent(u, entity))
        EXCEPT !.ret = clone]

\* lines 324-326, the rest with the new entity as argument
CloneFrom(u, entity, tr, parent) == CloneInto(u, entity, u.ret, tr, parent)

cloneEntity(u, entity) ==
    CloneFrom(createEntity(u, getTransform(u, entity).pos, getTransform(u, entity).rot),
              entity, getTransform(u, entity), getParent(u, entity))

----------------
(* Actions: one call of the public interface each *)

Call(name, a, b, r) == [op |-> name, a |-> a, b |-> b, ret |-> r]

\* what last holds when the call was not one the observer records
NoCall == Call("", -1, -1, -1)

EntryPoints ==
    {"createEntity", "destroyEntity", "emplaceEntity", "setParent", "setEntityName",
     "createComponent", "destroyComponent", "setTransform", "setPosition", "setRotation",
     "setScale", "setTransformKeepChildren", "setLocalTransform", "setLocalPosition",
     "setLocalRotation", "onComponentDestroyed", "serialize", "deserialize",
     "instantiatePrefab", "cloneEntity", "getEntityName", "findByName",
     "hasComponent", "getComponent", "getComponentsMask", "getFirstComponent",
     "getNextComponent", "getPosition", "getRotation", "getScale", "getTransform",
     "getParent", "getFirstChild"}

Alive == status = "ok"

Indices == 0 .. (Len(m_entities) - 1)

\* the state after a call whose handler ended in u2; a call that kills the process
\* never returns, and the tables are left as the call found them
Apply(u2, call, newlive) ==
    LET ok == u2.status = "ok"
    IN  /\ m_entities' = IF ok THEN u2.entities ELSE m_entities
        /\ m_transforms' = IF ok THEN u2.transforms ELSE m_transforms
        /\ m_hierarchy' = IF ok THEN u2.hierarchy ELSE m_hierarchy
        /\ m_names' = IF ok THEN u2.names ELSE m_names
        /\ m_first_free_slot' = IF ok THEN u2.first_free ELSE m_first_free_slot
        /\ live' = IF ok THEN newlive ELSE live
        /\ events' = IF call.op \in watch THEN u2.events ELSE <<>>
        /\ last' = IF call.op \in watch THEN call ELSE NoCall
        /\ status' = u2.status
        /\ UNCHANGED <<asserts, watch>>

\* createEntity when an appended slot holds links in its prev and next
CreateEntityOn(position, rotation, links) ==
    /\ Alive
    /\ m_first_free_slot >= 0 \/ Len(m_entities) < MaxEntities
    /\ LET u2 == createEntity(WithJunk(U, [U.junk EXCEPT !.prev = links.prev,
                                                         !.next = links.next]),
                              position, rotation)
       IN  Apply(u2, Call("createEntity", position, rotation, u2.ret), live \cup {u2.ret})

\* nothing reads prev and next of a live slot unless emplaceEntity is called on it,
\* so elsewhere one value stands for them all
CreateEntity(position, rotation) ==
    CreateEntityOn(position, rotation, [prev |-> -1, next |-> -1])

DestroyEntity(e) ==
    /\ Alive
    /\ e \in live
    /\ LET u2 == destroyEntity(U, e)
       IN  Apply(u2, Call("destroyEntity", e, -1, -1), live \ {e})

\* emplaceEntity on an index that is not live: a free slot or one beyond the table
EmplaceEntity(e) ==
    /\ Alive
    /\ e \in (0 .. (MaxEntities - 1)) \ live
    /\ LET u2 == emplaceEntity(U, e)
       IN  Apply(u2, Call("emplaceEntity", e, -1, e), live \cup {e})

\* emplaceEntity on the index of a live entity
EmplaceLiveEntity(e) ==
    /\ Alive
    /\ e \in live
    /\ LET u2 == emplaceEntity(U, e)
       IN  Apply(u2, Call("emplaceEntity", e, -1, e), live)

SetParent(new_parent, child) ==
    /\ Alive
    /\ child \in live
    /\ new_parent \in live \cup {INVALID_ENTITY}
    /\ Apply(setParent(U, new_parent, child), Call("setParent", new_parent, child, -1), live)

SetEntityName(e, name) ==
    /\ Alive
    /\ e \in live
    /\ Apply(setEntityName(U, e, name), Call("setEntityName", e, name, -1), live)

CreateComponent(t, e) ==
    /\ Alive
    /\ e \in live
    /\ Apply(createComponent(U, t, e), Call("createComponent", e, t, -1), live)

\* createComponent of a type whose module declines
CreateComponentDeclined(t, e) ==
    /\ Alive
    /\ e \in live
    /\ Apply(createComponentDeclined(U, t, e), Call("createComponent", e, t, -1), live)

\* a module reporting the end of a component
OnComponentDestroyed(e, t) ==
    /\ Alive
    /\ e \in live
    /\ Apply(onComponentDestroyed(U, e, t), Call("onComponentDestroyed", e, t, -1), live)

DestroyComponent(e, t) ==
    /\ Alive
    /\ e \in live
    /\ hasComponent(U, e, t)
    /\ Apply(destroyComponent(U, e, t), Call("destroyComponent", e, t, -1), live)

SetTransform(e, t) ==
    /\ Alive
    /\ e \in live
    /\ Apply(setTransform(U, e, t), Call("setTransform", e, t, -1), live)

SetPosition(e, pos) ==
    /\ Alive
    /\ e \in live
    /\ Apply(setPosition(U, e, pos), Call("setPosition", e, pos, -1), live)

Serialize ==
    /\ Alive
    /\ Apply(serialize(U), Call("serialize", -1, -1, -1), live)

\* the universe is serialized and a fresh Universe deserializes the stream; the
\* fresh one is the universe from then on
Reload ==
    /\ Alive
    /\ Apply(deserialize(Fresh(U), serialize(U).ret), Call("deserialize", -1, -1, -1), live)

\* getEntityName: a read that returns the string
GetEntityName(e) ==
    /\ Alive
    /\ e \in Indices
    /\ Apply(U, Call("getEntityName", e, -1, getEntityName(U, e)), live)

\* the component reads: each returns a value and writes nothing
HasComponent(e, t) ==
    /\ Alive
    /\ e \in live
    /\ Apply(U, Call("hasComponent", e, t, hasComponent(U, e, t)), live)

GetComponent(e, t) ==
    /\ Alive
    /\ e \in live
    /\ Apply(U, Call("getComponent", e, t, getComponent(U, e, t)), live)

GetComponentsMask(e) ==
    /\ Alive
    /\ e \in Indices
    /\ Apply(U, Call("getComponentsMask", e, -1, getComponentsMask(U, e)), live)

GetFirstComponent(e) ==
    /\ Alive
    /\ e \in live
    /\ Apply(U, Call("getFirstComponent", e, -1, getFirstComponent(U, e)), live)

\* cmp is a component handle of e obtained earlier: its type is any type
GetNextComponent(e, cmp) ==
    /\ Alive
    /\ e \in live
    /\ Apply(U, Call("getNextComponent", e, cmp, getNextComponent(U, e, cmp)), live)

\* destroyEntity on the index of a slot that is not valid: destroyed before
\* and not created again
DestroyEntityAgain(e) ==
    /\ Alive
    /\ e \in Indices \ live
    /\ ~m_entities[e + 1].valid
    /\ Apply(destroyEntity(U, e), Call("destroyEntity", e, -1, -1), live)

\* the attribute reads: e is any index of the table, a destroyed slot included
GetPosition(e) ==
    /\ Alive
    /\ e \in Indices
    /\ Apply(U, Call("getPosition", e, -1, getPosition(U, e)), live)

GetRotation(e) ==
    /\ Alive
    /\ e \in Indices
    /\ Apply(U, Call("getRotation", e, -1, getRotation(U, e)), live)

GetScale(e) ==
    /\ Alive
    /\ e \in Indices
    /\ Apply(U, Call("getScale", e, -1, getScale(U, e)), live)

GetTransform(e) ==
    /\ Alive
    /\ e \in Indices
    /\ Apply(U, Call("getTransform", e, -1, getTransform(U, e)), live)

GetParent(e) ==
    /\ Alive
    /\ e \in Indices
    /\ Apply(U, Call("getParent", e, -1, getParent(U, e)), live)

GetFirstChild(e) ==
    /\ Alive
    /\ e \in Indices
    /\ Apply(U, Call("getFirstChild", e, -1, getFirstChild(U, e)), live)

\* setLocalTransform, setLocalPosition and setLocalRotation on an entity that
\* has a hierarchy node and no parent; before is what the memory in front of
\* m_transforms holds, which updateGlobalTransform reads as the parent's
\* transform when the assertion of line 577 is compiled out
SetLocalTransformRoot(e, t, before) ==
    /\ Alive
    /\ e \in live
    /\ m_entities[e + 1].hierarchy >= 0
    /\ getParent(U, e) = INVALID_ENTITY
    /\ Apply(setLocalTransform(WithJunk(U, [U.junk EXCEPT !.local = before]), e, t),
             Call("setLocalTransform", e, t, -1), live)

SetLocalPositionRoot(e, pos, before) ==
    /\ Alive
    /\ e \in live
    /\ m_entities[e + 1].hierarchy >= 0
    /\ getParent(U, e) = INVALID_ENTITY
    /\ Apply(setLocalPosition(WithJunk(U, [U.junk EXCEPT !.local = before]), e, pos),
             Call("setLocalPosition", e, pos, -1), live)

SetLocalRotationRoot(e, rot, before) ==
    /\ Alive
    /\ e \in live
    /\ m_entities[e + 1].hierarchy >= 0
    /\ getParent(U, e) = INVALID_ENTITY
    /\ Apply(setLocalRotation(WithJunk(U, [U.junk EXCEPT !.local = before]), e, rot),
             Call("setLocalRotation", e, rot, -1), live)

\* setTransform and setPosition while a listener of entityTransformed reads the
\* transforms; the call record carries what the listener found at the first invoke
SetTransformObserved(e, t) ==
    /\ Alive
    /\ e \in live
    /\ LET u2 == setTransformObserved(U, e, t)
       IN  Apply(u2, Call("setTransform", e, t, u2.ret), live)

SetPositionObserved(e, pos) ==
    /\ Alive
    /\ e \in live
    /\ LET u2 == setPositionObserved(U, e, pos)
       IN  Apply(u2, Call("setPosition", e, pos, u2.ret), live)

\* setParent where the memory of a node emplaced by the call holds fresh
SetParentOn(new_parent, child, fresh) ==
    /\ Alive
    /\ child \in live
    /\ new_parent \in live \cup {INVALID_ENTITY}
    /\ Apply(setParent(WithJunk(U, [U.junk EXCEPT !.local = fresh]), new_parent, child),
             Call("setParent", new_parent, child, -1), live)

GetLocalTransform(e) ==
    /\ Alive
    /\ e \in live
    /\ Apply(U, Call("getLocalTransform", e, -1, getLocalTransform(U, e)), live)

GetLocalScale(e) ==
    /\ Alive
    /\ e \in live
    /\ Apply(U, Call("getLocalScale", e, -1, getLocalScale(U, e)), live)

FindByName(parent, name) ==
    /\ Alive
    /\ parent \in live \cup {INVALID_ENTITY}
    /\ LET u2 == findByName(U, parent, name)
       IN  Apply(u2, Call("findByName", parent, name, u2.ret), live)

\* cloneEntity; the model has room for MaxEntities slots
CloneEntity(e) ==
    /\ Alive
    /\ e \in live
    /\ m_first_free_slot >= 0 \/ Len(m_entities) < MaxEntities
    /\ LET u2 == cloneEntity(U, e)
       IN  Apply(u2, Call("cloneEntity", e, -1, u2.ret), live \cup {u2.ret})

\* setPosition(e, pos) while an entityTransformed listener destroys victim, a
\* live entity that is neither e nor an ancestor or descendant of e
SetPositionListening(e, pos, victim, trap) ==
    /\ Alive
    /\ e \in live
    /\ victim \in live \ {e}
    /\ DescendantWalk(U, getFirstChild(U, e), victim, Fuel(U)) = "F"
    /\ DescendantWalk(U, getFirstChild(U, victim), e, Fuel(U)) = "F"
    /\ Apply(setPositionListening(U, e, pos, victim, trap),
             Call("setPosition", e, pos, victim), live \ {victim})

SetRotation(e, rot) ==
    /\ Alive
    /\ e \in live
    /\ Apply(setRotation(U, e, rot), Call("setRotation", e, rot, -1), live)

SetScale(e, scale) ==
    /\ Alive
    /\ e \in live
    /\ Apply(setScale(U, e, scale), Call("setScale", e, scale, -1), live)

SetTransformKeepChildren(e, t) ==
    /\ Alive
    /\ e \in live
    /\ Apply(setTransformKeepChildren(U, e, t), Call("setTransformKeepChildren", e, t, -1), live)

SetLocalTransform(e, t) ==
    /\ Alive
    /\ e \in live
    /\ Apply(setLocalTransform(U, e, t), Call("setLocalTransform", e, t, -1), live)

SetLocalPosition(e, pos) ==
    /\ Alive
    /\ e \in live
    /\ Apply(setLocalPosition(U, e, pos), Call("setLocalPosition", e, pos, -1), live)

SetLocalRotation(e, rot) ==
    /\ Alive
    /\ e \in live
    /\ Apply(setLocalRotation(U, e, rot), Call("setLocalRotation", e, rot, -1), live)

\* the state after the constructor: every table empty
Constructed ==
    /\ m_entities = <<>>
    /\ m_transforms = <<>>
    /\ m_hierarchy = <<>>
    /\ m_names = <<>>
    /\ m_first_free_slot = -1
    /\ live = {}
    /\ events = <<>>
    /\ last = NoCall
    /\ status = "ok"

\* a debug build (ASSERT compiled in) whose observer records every call
Init == Constructed /\ asserts = TRUE /\ watch = EntryPoints

\* a debug build whose observer records the calls of the entry points ops
InitWatch(ops) == Constructed /\ asserts = TRUE /\ watch = ops

\* either build
InitAnyBuild(ops) == Constructed /\ asserts \in BOOLEAN /\ watch = ops

----------------------------------------------------------------------------
(* The slot allocator alone: createEntity, destroyEntity on live entities and  *)
(* emplaceEntity on indices that are not live.                                 *)

AllocPositions == {1}
AllocRotations == {1}

NextAlloc ==
    \/ \E p \in AllocPositions, r \in AllocRotations : CreateEntity(p, r)
    \/ \E e \in Indices : DestroyEntity(e)
    \/ \E e \in 0 .. (MaxEntities - 1) : EmplaceEntity(e)

SpecAlloc == Init /\ [][NextAlloc]_vars

\* the slots met from slot i on by following next, at most fuel of them
RECURSIVE FreeWalk(_, _)
FreeWalk(i, fuel) ==
    IF i < 0 \/ i >= Len(m_entities) \/ fuel = 0 THEN <<>>
    ELSE <<i>> \o FreeWalk(m_entities[i + 1].next, fuel - 1)

\* the free list as the code walks it; one element longer than the table when it loops
FreeList == FreeWalk(m_first_free_slot, Len(m_entities) + 1)

InvalidSlots == {i \in Indices : ~m_entities[i + 1].valid}
ValidSlots == {i \in Indices : m_entities[i + 1].valid}

FreeListExact ==
    /\ m_first_free_slot \in Indices \cup {-1}
    /\ {FreeList[k] : k \in 1 .. Len(FreeList)} = InvalidSlots
    /\ Len(FreeList) = Cardinality(InvalidSlots)
    /\ \A i \in InvalidSlots : m_entities[i + 1].next \in Indices \cup {-1}

PrevMirrorsNext ==
    \A k \in 1 .. Len(FreeList) :
        m_entities[FreeList[k] + 1].prev = IF k = 1 THEN -1 ELSE FreeList[k - 1]

\* C1: after any sequence of createEntity, destroyEntity (on live entities) and
\* emplaceEntity (on indices that are not live), the slots reachable from
\* m_first_free_slot over next are exactly the slots with valid = false, each once,
\* prev mirrors next with the head's prev = -1, and the slots with valid = true are
\* exactly the live entities.
C1_FreeListCorrect ==
    Alive => /\ FreeListExact
             /\ PrevMirrorsNext
             /\ ValidSlots = live
             /\ Cardinality(ValidSlots) = Cardinality(live)

\* C1 witness: emplaceEntity has just taken a slot out of the middle of the free
\* list (the slot still shows both neighbours), two slots stay free
C1_Witness ==
    /\ Alive
    /\ last.op = "emplaceEntity"
    /\ m_entities[last.a + 1].prev >= 0
    /\ m_entities[last.a + 1].next >= 0
    /\ Len(FreeList) >= 2
    /\ live = {last.a}

----------------------------------------------------------------------------
(* The life of entities: creation, destruction, parents, names, components.   *)
(* Fresh slots are created at position 1 or 2, recycled ones at position 1;   *)
(* entities 0 and 1 get names, entity 0 a component.                          *)

LifeName(e) == IF e = 0 THEN "a" ELSE "b"
LifeNamed == {0, 1}
LifeEquipped == {0}

NextLife ==
    \/ \E p \in {1, 2} : (p = 1 \/ m_first_free_slot < 0) /\ CreateEntity(p, 0)
    \/ \E e \in Indices : DestroyEntity(e)
    \/ \E p \in Indices \cup {INVALID_ENTITY}, c \in Indices : p # c /\ SetParent(p, c)
    \/ \E e \in Indices \cap LifeNamed : SetEntityName(e, LifeName(e))
    \/ \E e \in Indices \cap LifeEquipped : CreateComponent(0, e)

SpecLife == InitWatch({"createEntity", "destroyEntity"}) /\ [][NextLife]_vars

Links(e) == <<getParent(U, e), getFirstChild(U, e), getNextSibling(U, e)>>

\* entity e is after the step what it was before it, hierarchy links apart
SameEntity(e) ==
    /\ e \in live'
    /\ m_entities'[e + 1].valid
    /\ m_transforms'[e + 1] = m_transforms[e + 1]
    /\ getEntityName(U, e)' = getEntityName(U, e)
    /\ m_entities'[e + 1].components = m_entities[e + 1].components

SameLinks(e) ==
    /\ Links(e)' = Links(e)
    /\ getLocalTransform(U, e)' = getLocalTransform(U, e)

\* the step is a createEntity or a destroyEntity call that returned
LifeCall == last'.op \in {"createEntity", "destroyEntity"} /\ status' = "ok"

\* the entities the call was not made on
Others == IF last'.op = "destroyEntity" THEN live \ {last'.a} ELSE live

\* C2 as stated: createEntity never returns a live index, and a live entity keeps
\* its index, transform, name, component mask and hierarchy links over every
\* createEntity and every destroyEntity of another entity.
C2_Original ==
    [][LifeCall => /\ last'.op = "createEntity" => last'.ret \notin live
                   /\ \A e \in Others : SameEntity(e) /\ SameLinks(e)]_vars

\* C2 amended: createEntity never returns a live index; a live entity keeps its
\* index, validity, world transform, name and component mask over every
\* createEntity and every destroyEntity of another entity, and its hierarchy
\* links and local transform unless the destroyed entity is its parent, its first
\* child or its next sibling.
C2_IndexStability ==
    [][LifeCall => /\ last'.op = "createEntity" => last'.ret \notin live
                   /\ \A e \in Others :
                         /\ SameEntity(e)
                         /\ (last'.op = "createEntity"
                               \/ last'.a \notin {Links(e)[1], Links(e)[2], Links(e)[3]})
                            => SameLinks(e)]_vars

\* C2 witness: entity 0 has been destroyed while entity 1, named, at position 2
\* and a child of entity 2, lived on; its name entry moved to slot 0
C2_Witness ==
    /\ Alive
    /\ last.op = "destroyEntity"
    /\ last.a = 0
    /\ live = {1, 2}
    /\ getEntityName(U, 1) = "b"
    /\ m_entities[2].name = 0
    /\ getParent(U, 1) = 2
    /\ m_transforms[2].pos = 2

----------------------------------------------------------------------------
(* Trees: entities created at several places and reparented in every way,     *)
(* under themselves and under nothing included.                              *)

TreePlaces == {<<1, 0>>, <<2, 1>>}

NextTree ==
    \/ \E at \in TreePlaces : CreateEntity(at[1], at[2])
    \/ \E p \in Indices \cup {INVALID_ENTITY}, c \in Indices : SetParent(p, c)

SpecTree == InitWatch({"setParent"}) /\ [][NextTree]_vars

\* following parent links from e ends at an entity without parent
RECURSIVE ReachesRoot(_, _)
ReachesRoot(e, fuel) ==
    IF e = INVALID_ENTITY THEN TRUE
    ELSE IF fuel = 0 THEN FALSE
    ELSE ReachesRoot(getParent(U, e), fuel - 1)

\* C3: after any sequence of setParent calls over live entities, following parent
\* links from any entity reaches a parentless entity in finitely many steps, so no
\* entity is its own parent or ancestor.
C3_NoCycles ==
    Alive => \A e \in live : ReachesRoot(getParent(U, e), MaxEntities)

\* the entities met by following parent links from e, e itself not counted
RECURSIVE Ancestors(_, _)
Ancestors(e, fuel) ==
    LET p == getParent(U, e)
    IN  IF p = INVALID_ENTITY \/ fuel = 0 THEN {}
        ELSE {p} \cup Ancestors(p, fuel - 1)

Tables == <<m_entities, m_transforms, m_hierarchy, m_names, m_first_free_slot>>

\* the step is the call setParent(new_parent, child)
IsSetParent(new_parent, child) ==
    /\ last'.op = "setParent"
    /\ last'.a = new_parent
    /\ last'.b = child

\* C5: setParent(a, b) with a a descendant of b returns, logs one error and
\* leaves every table (links, local and world transforms, hierarchy table) as it
\* was.
C5_CycleRejected ==
    [][\A b \in live : \A a \in {x \in live : b \in Ancestors(x, MaxEntities)} :
         IsSetParent(a, b)
         => /\ status' = "ok"
            /\ Len(events') = 1
            /\ events'[1].ev = "logError"
            /\ Tables' = Tables]_vars

\* the step is a setParent call that returned without reporting an error
Accepted ==
    /\ last'.op = "setParent"
    /\ status' = "ok"
    /\ \A i \in 1 .. Len(events') : events'[i].ev # "logError"

\* C6: an accepted setParent(new_parent, c) changes no world transform and fires
\* no event; c's local transform becomes inverse(world(new_parent)) * world(c)
\* and every other child keeps its parent and its local transform.
C6_NoJump ==
    [][\A c \in live : \A new_parent \in live \cup {INVALID_ENTITY} :
         Accepted /\ IsSetParent(new_parent, c) =>
           /\ m_transforms' = m_transforms
           /\ events' = <<>>
           /\ new_parent # INVALID_ENTITY =>
                  /\ getParent(U, c)' = new_parent
                  /\ getLocalTransform(U, c)'
                       = TMul(TInv(m_transforms[new_parent + 1]), m_transforms[c + 1])
           /\ \A e \in live \ {c} :
                  getParent(U, e) # INVALID_ENTITY =>
                      /\ getParent(U, e)' = getParent(U, e)
                      /\ getLocalTransform(U, e)' = getLocalTransform(U, e)]_vars

\* C6 witness: an accepted setParent under a rotated parent away from the
\* origin, which already had a child; the new local transform differs from the
\* world transform
C6_Witness ==
    /\ Alive
    /\ last.op = "setParent"
    /\ events = <<>>
    /\ last.a >= 0
    /\ last.a # last.b
    /\ getParent(U, last.b) = last.a
    /\ m_transforms[last.a + 1].rot = 1
    /\ m_transforms[last.a + 1].pos # 0
    /\ getNextSibling(U, last.b) # INVALID_ENTITY
    /\ getLocalTransform(U, last.b) # m_transforms[last.b + 1]
    /\ getLocalTransform(U, last.b) # Identity

----------------------------------------------------------------------------
(* Moving entities in a hierarchy.  Transforms are translations with a half   *)
(* turn; every slot is used once; no listener re-enters the universe.         *)

HasParent(e) == getParent(U, e) # INVALID_ENTITY

MoveTo == Transform(2, 1, 1)

NextMove ==
    \/ m_first_free_slot < 0 /\ CreateEntity(1, 0)
    \/ \E e \in live : DestroyEntity(e)
    \/ \E p \in live \cup {INVALID_ENTITY}, c \in live : p # c /\ SetParent(p, c)
    \/ \E e \in live : SetTransform(e, MoveTo)
    \/ \E e \in live : SetPosition(e, 2)
    \/ \E e \in live : SetRotation(e, 1)
    \/ \E e \in live : SetScale(e, 1)
    \/ \E e \in live : HasParent(e) /\ SetLocalTransform(e, MoveTo)
    \/ \E e \in live : HasParent(e) /\ SetLocalPosition(e, 2)
    \/ \E e \in live : HasParent(e) /\ SetLocalRotation(e, 1)

SpecMove == InitWatch({}) /\ [][NextMove]_vars

\* C4: after any sequence of setParent, setTransform, setPosition, setRotation,
\* setScale, destroyEntity and setLocalTransform/Position/Rotation on entities
\* with a parent, every entity c with parent p has world(c) = world(p) * local(c).
C4_WorldIsParentTimesLocal ==
    Alive => \A c \in live :
                HasParent(c) =>
                    m_transforms[c + 1]
                      = TMul(m_transforms[getParent(U, c) + 1], getLocalTransform(U, c))

\* C4 witness: a chain 0 <- 1 <- 2 of three entities whose root has been turned and
\* moved, with local transforms that are neither the identity nor the world
\* transforms
C4_Witness ==
    /\ Alive
    /\ live = {0, 1, 2}
    /\ getParent(U, 1) = 0
    /\ getParent(U, 2) = 1
    /\ m_transforms[1].rot = 1
    /\ m_transforms[1].pos # 0
    /\ getLocalTransform(U, 1).rot = 1
    /\ getLocalTransform(U, 1).pos # 0
    /\ getLocalTransform(U, 2).pos = 2
    /\ getLocalTransform(U, 2) # m_transforms[3]
    /\ m_transforms[3] # m_transforms[2]

\* no hierarchy node and no name entry mentions entity e
Unmentioned(e) ==
    /\ \A i \in 1 .. Len(m_hierarchy) :
          e \notin {m_hierarchy[i].entity, m_hierarchy[i].parent,
                    m_hierarchy[i].first_child, m_hierarchy[i].next_sibling}
    /\ \A i \in 1 .. Len(m_names) : m_names[i].entity # e

\* entity e is valid, at transform t, bare of name, components and hierarchy
\* node, and entityCreated(e) is the one event fired
CreatedBare(e, t) ==
    /\ e \in Indices
    /\ m_entities[e + 1].valid
    /\ m_transforms[e + 1] = t
    /\ m_entities[e + 1].components = {}
    /\ getEntityName(U, e) = ""
    /\ m_entities[e + 1].hierarchy = -1
    /\ getParent(U, e) = INVALID_ENTITY
    /\ getFirstChild(U, e) = INVALID_ENTITY
    /\ Unmentioned(e)
    /\ Len(events) = 1
    /\ events[1].ev = "entityCreated"
    /\ events[1].e = e
    /\ events[1].valid

----------------------------------------------------------------------------
(* createEntity, under SpecLife *)

\* C7: createEntity(pos, rot) returns a valid entity at position pos, rotation
\* rot and scale 1, without components, name or hierarchy node, and fires
\* entityCreated for it exactly once, also when it reuses a slot.
C7_CreatePost ==
    (Alive /\ last.op = "createEntity") =>
        CreatedBare(last.ret, Transform(last.a, last.b, 1))

\* C7 witness: createEntity has taken slot 0 from the free list, where another
\* free slot followed it, while another entity holds a name
C7_Witness ==
    /\ Alive
    /\ last.op = "createEntity"
    /\ last.ret = 0
    /\ m_entities[1].next >= 0
    /\ m_first_free_slot = m_entities[1].next
    /\ Len(m_names) >= 1

----------------------------------------------------------------------------
(* emplaceEntity on indices that are not live: undo and redo.  Entities have  *)
(* parents, and entity 0 a name, for emplaceEntity to leave alone.            *)

EmplaceNamed == {0}

NextEmplace ==
    \/ CreateEntity(1, 1)
    \/ \E e \in live : DestroyEntity(e)
    \/ \E e \in 0 .. (MaxEntities - 1) : EmplaceEntity(e)
    \/ \E p \in live \cup {INVALID_ENTITY}, c \in live : p # c /\ SetParent(p, c)
    \/ \E e \in live \cap EmplaceNamed : SetEntityName(e, LifeName(e))

SpecEmplace == InitWatch({"emplaceEntity"}) /\ [][NextEmplace]_vars

\* the step is the call emplaceEntity(e), and it returned
IsEmplace(e) == last'.op = "emplaceEntity" /\ last'.a = e /\ status' = "ok"

\* C8: emplaceEntity(e) on a non-live index makes e valid at the identity
\* transform, bare, fires entityCreated(e) once, synthesizes every index between
\* the old size and e as an invalid slot on the free list, takes e off the free
\* list, and leaves every live entity as it was: exactly e becomes live.
C8_EmplacePost ==
    [][\A e \in (0 .. (MaxEntities - 1)) \ live :
         IsEmplace(e) =>
           /\ CreatedBare(e, Identity)'
           /\ \A i \in Len(m_entities) .. (e - 1) :
                  /\ i + 1 <= Len(m_entities')
                  /\ ~m_entities'[i + 1].valid
           /\ FreeListExact'
           /\ PrevMirrorsNext'
           /\ ValidSlots' = ValidSlots \cup {e}
           /\ \A x \in live : SameEntity(x) /\ SameLinks(x)]_vars

\* C8 witness: emplaceEntity(2) on an empty table has synthesized slots 0 and 1
\* as free slots
C8_Witness ==
    /\ Alive
    /\ last.op = "emplaceEntity"
    /\ last.a = 2
    /\ live = {2}
    /\ FreeList = <<1, 0>>
    /\ m_entities[1].prev = 1

----------------------------------------------------------------------------
(* emplaceEntity on any index, live ones included *)

JunkLinks == {INVALID_ENTITY, 0}

NextEmplaceLive ==
    \/ \E p \in JunkLinks, n \in JunkLinks : CreateEntityOn(1, 1, [prev |-> p, next |-> n])
    \/ \E e \in live : DestroyEntity(e)
    \/ \E e \in 0 .. (MaxEntities - 1) : EmplaceEntity(e)
    \/ \E e \in live : EmplaceLiveEntity(e)

SpecEmplaceLive == InitWatch({"emplaceEntity"}) /\ [][NextEmplaceLive]_vars

\* C9: emplaceEntity(e) on a live index e leaves the free list made of exactly
\* the invalid slots with consistent prev/next links, and changes no other
\* entity's validity.
C9_EmplaceLiveSafe ==
    [][\A e \in live :
         IsEmplace(e) =>
           /\ FreeListExact'
           /\ PrevMirrorsNext'
           /\ \A x \in Indices \ {e} : m_entities'[x + 1].valid = m_entities[x + 1].valid]_vars

----------------------------------------------------------------------------
(* destroyEntity of entities with children, parents, a name and components,   *)
(* in the debug and in the release build.  Entity 0 gets the name and the     *)
(* components, a wheel among them.                                            *)

DestroyEquipped == {0}

NextDestroy ==
    \/ CreateEntity(1, 0)
    \/ \E e \in live : DestroyEntity(e)
    \/ \E p \in live \cup {INVALID_ENTITY}, c \in live : p # c /\ SetParent(p, c)
    \/ \E e \in live \cap DestroyEquipped : SetEntityName(e, LifeName(e))
    \/ \E e \in live \cap DestroyEquipped, t \in Types : CreateComponent(t, e)

SpecDestroy == InitAnyBuild({"destroyEntity"}) /\ [][NextDestroy]_vars

IsDestroyCall(x) == x.ev = "destroy"
IsEntityDestroyed(x) == x.ev = "entityDestroyed"

\* C10: destroyEntity(e) first detaches e and its children, then calls the
\* destroy callback once per attached type in ascending order (in the debug
\* build a callback that leaves the mask unchanged stops the process), then
\* invalidates e, removes its name and makes it the head of the free list, and
\* last fires entityDestroyed(e) once, with mask 0 if every callback cleared its
\* bit.
C10_DestroyOrder ==
    [][\A e \in live :
         (last'.op = "destroyEntity" /\ last'.a = e /\ status' = "ok") =>
           LET mask == m_entities[e + 1].components
               calls == SelectSeq(events', IsDestroyCall)
               fired == SelectSeq(events', IsEntityDestroyed)
           IN  /\ Len(calls) = Cardinality(mask)
               /\ \A i \in 1 .. Len(calls) :
                      /\ calls[i].e = e
                      /\ calls[i].t \in mask
                      /\ calls[i].t \in calls[i].mask
                      /\ calls[i].valid
                      /\ ~calls[i].linked
                      /\ calls[i].hier = -1
                      /\ calls[i].name = m_entities[e + 1].name
                      /\ calls[i].head = m_first_free_slot
                      /\ asserts => calls[i].t # WheelType
               /\ \A i, j \in 1 .. Len(calls) : i < j => calls[i].t < calls[j].t
               /\ Len(fired) = 1
               /\ events'[Len(events')] = fired[1]
               /\ fired[1].e = e
               /\ ~fired[1].valid
               /\ ~fired[1].linked
               /\ fired[1].name = -1
               /\ fired[1].head = e
               /\ \A i \in 1 .. Len(m_names') : m_names'[i].entity # e
               /\ WheelType \notin mask => fired[1].mask = {}]_vars

\* C10 witness: the release build has destroyed a named entity with both
\* component types, calling the callback of type 0 and then that of the wheel
C10_Witness ==
    /\ Alive
    /\ ~asserts
    /\ last.op = "destroyEntity"
    /\ Len(SelectSeq(events, IsDestroyCall)) = 2
    /\ SelectSeq(events, IsDestroyCall)[1].t = 0
    /\ SelectSeq(events, IsDestroyCall)[1].name >= 0
    /\ SelectSeq(events, IsDestroyCall)[2].t = WheelType
    /\ events[Len(events)].ev = "entityDestroyed"
    /\ events[Len(events)].mask = {WheelType}
    /\ Len(m_hierarchy) >= 2

----------------------------------------------------------------------------
(* destroyEntity of a parent, under SpecLife *)

\* the step is the call destroyEntity(e), and it returned
IsDestroy(e) == last'.op = "destroyEntity" /\ last'.a = e /\ status' = "ok"

\* C11: destroying an entity with children leaves every former child valid,
\* without parent (not handed to the destroyed entity's parent) and at its world
\* transform, and every grandchild attached to its own parent.
C11_ChildrenBecomeRoots ==
    [][\A e \in live :
         IsDestroy(e) =>
           \A c \in live :
              getParent(U, c) = e =>
                /\ m_entities'[c + 1].valid
                /\ getParent(U, c)' = INVALID_ENTITY
                /\ m_transforms'[c + 1] = m_transforms[c + 1]
                /\ \A g \in live :
                      getParent(U, g) = c /\ g # e =>
                        /\ getParent(U, g)' = c
                        /\ getLocalTransform(U, g)' = getLocalTransform(U, g)
                        /\ m_transforms'[g + 1] = m_transforms[g + 1]]_vars

\* C11 witness: entity 0 has been destroyed; entity 1, whose node still holds the
\* local transform it had under 0, is a root and keeps its child 2
C11_Witness ==
    /\ Alive
    /\ last.op = "destroyEntity"
    /\ last.a = 0
    /\ live = {1, 2}
    /\ getParent(U, 1) = INVALID_ENTITY
    /\ getParent(U, 2) = 1
    /\ getLocalTransform(U, 1) = TMul(TInv(m_transforms[1]), m_transforms[2])
    /\ getLocalTransform(U, 1) # m_transforms[2]

----------------------------------------------------------------------------
(* Moving an ancestor: entities created at two places, put under parents and  *)
(* moved to the origin by setPosition or elsewhere by setTransform.           *)

NextChain ==
    \/ \E at \in TreePlaces : CreateEntity(at[1], at[2])
    \/ \E p \in live, c \in live : p # c /\ SetParent(p, c)
    \/ \E e \in live : SetPosition(e, 0)
    \/ \E e \in live : SetTransform(e, MoveTo)

SpecChain == InitWatch({"setPosition", "setTransform"}) /\ [][NextChain]_vars

\* the step is a setPosition or setTransform call on e, and it returned
IsMove(e) ==
    /\ last'.op \in {"setPosition", "setTransform"}
    /\ last'.a = e
    /\ status' = "ok"

Descendants(e) == {x \in live : e \in Ancestors(x, MaxEntities)}

\* C12: moving entity e re-derives every descendant, at every depth, as
\* world(parent) * local with its local transform unchanged; when only the
\* position of e changes, by d, every descendant's world position changes by
\* exactly d and its rotation and scale stay.
C12_AncestorMove ==
    [][\A e \in live :
         IsMove(e) =>
           \A x \in Descendants(e) :
              /\ getLocalTransform(U, x)' = getLocalTransform(U, x)
              /\ getParent(U, x)' = getParent(U, x)
              /\ m_transforms'[x + 1]
                   = TMul(m_transforms'[getParent(U, x) + 1], getLocalTransform(U, x))
              /\ last'.op = "setPosition" =>
                    /\ m_transforms'[x + 1].pos
                         = (m_transforms[x + 1].pos + last'.b + PosMod
                              - m_transforms[e + 1].pos) % PosMod
                    /\ m_transforms'[x + 1].rot = m_transforms[x + 1].rot
                    /\ m_transforms'[x + 1].scale = m_transforms[x + 1].scale]_vars

\* C12 witness: setPosition has put the turned root 0 of the chain 0 <- 1 <- 2 at
\* the origin, where no entity is created; 1 and 2 have local transforms that
\* are not the identity
C12_Witness ==
    /\ Alive
    /\ live = {0, 1, 2}
    /\ last.op = "setPosition"
    /\ last.a = 0
    /\ last.b = 0
    /\ m_transforms[1] = Transform(0, 1, 1)
    /\ getParent(U, 1) = 0
    /\ getParent(U, 2) = 1
    /\ getLocalTransform(U, 1) # Identity
    /\ getLocalTransform(U, 2) # Identity
    /\ m_transforms[3] # m_transforms[2]

----------------------------------------------------------------------------
(* Hierarchy nodes, under SpecLife *)

HasChild(e) == \E c \in live : getParent(U, c) = e

\* C13: after any sequence of setParent and destroyEntity calls a live entity
\* has a hierarchy node exactly when it has a parent or a child, so a node left
\* without parent and children is gone when the call returns.
C13_NodeIffLinked ==
    Alive => \A e \in live :
                /\ m_entities[e + 1].hierarchy >= 0 <=> (HasParent(e) \/ HasChild(e))
                /\ HasChild(e) <=> getFirstChild(U, e) # INVALID_ENTITY

\* C13 witness: a destroyEntity has left two live entities without any node
\* while the third slot is free
C13_Witness ==
    /\ Alive
    /\ last.op = "destroyEntity"
    /\ Cardinality(live) = 2
    /\ m_hierarchy = <<>>
    /\ m_transforms[last.a + 1].pos = 2

----------------------------------------------------------------------------
(* Component dispatch: modules that attach, decline, detach, and one (the     *)
(* wheel) whose destroy method does nothing; both builds.                     *)

NextComponents ==
    \/ CreateEntity(1, 0)
    \/ \E e \in live, t \in Types : CreateComponent(t, e)
    \/ \E e \in live, t \in Types : CreateComponentDeclined(t, e)
    \/ \E e \in live, t \in Types : DestroyComponent(e, t)
    \/ \E e \in live, t \in Types : OnComponentDestroyed(e, t)

SpecComponents ==
    InitAnyBuild({"createComponent", "destroyComponent", "onComponentDestroyed"})
        /\ [][NextComponents]_vars

\* the step is the call op(e, t), and it returned
IsComponentCall(op, e, t) ==
    /\ last'.op = op
    /\ last'.a = e
    /\ last'.b = t
    /\ status' = "ok"

\* the events of kind ev in the sequence seq
EventsOf(seq, ev) == {i \in 1 .. Len(seq) : seq[i].ev = ev}

\* every mask but that of e is what it was
OtherMasksKept(e) ==
    \A x \in Indices \ {e} : m_entities'[x + 1].components = m_entities[x + 1].components

\* C14: createComponent(t, e) invokes the create callback of t once, with e; if
\* the callback reports through onComponentCreated, bit t of e is set,
\* componentAdded(e, t) fired once, and no other bit of any entity changed.
C14_CreateDispatch ==
    [][\A e \in live : \A t \in Types :
         IsComponentCall("createComponent", e, t) =>
           /\ Cardinality(EventsOf(events', "create")) = 1
           /\ events'[1].ev = "create"
           /\ events'[1].e = e
           /\ events'[1].t = t
           /\ EventsOf(events', "componentAdded") # {} =>
                 /\ Len(events') = 2
                 /\ events'[2].ev = "componentAdded"
                 /\ events'[2].e = e
                 /\ events'[2].t = t
                 /\ t \in events'[2].mask
                 /\ hasComponent(U, e, t)'
                 /\ m_entities'[e + 1].components = m_entities[e + 1].components \cup {t}
                 /\ OtherMasksKept(e)]_vars

\* C14 witness: createComponent has given entity 1 its second component while
\* entity 0 holds one
C14_Witness ==
    /\ Alive
    /\ last.op = "createComponent"
    /\ last.a = 1
    /\ Len(events) = 2
    /\ events[2].ev = "componentAdded"
    /\ m_entities[2].components = Types
    /\ m_entities[1].components = {0}

\* C15: when the create callback invoked by createComponent(t, e) returns without
\* calling onComponentCreated, no mask changes, so a bit that was not set stays
\* unset, and no componentAdded event fires.
C15_DeclineSetsNothing ==
    [][\A e \in live : \A t \in Types :
         (IsComponentCall("createComponent", e, t)
             /\ EventsOf(events', "componentAdded") = {}) =>
           /\ Len(events') = 1
           /\ events'[1].ev = "create"
           /\ m_entities'[e + 1].components = m_entities[e + 1].components
           /\ hasComponent(U, e, t)' = hasComponent(U, e, t)
           /\ OtherMasksKept(e)]_vars

\* C15 witness: the module declined createComponent(0, e) on an entity that has
\* only the other component
C15_Witness ==
    /\ Alive
    /\ last.op = "createComponent"
    /\ last.b = 0
    /\ Len(events) = 1
    /\ events[1].ev = "create"
    /\ m_entities[last.a + 1].components = Types \ {0}
    /\ ~hasComponent(U, last.a, 0)

\* C16: destroyComponent(e, t) on an entity that has t invokes the destroy
\* callback of t once; if the callback reports through onComponentDestroyed, bit
\* t of e is cleared, componentDestroyed(e, t) fired once and no other bit of
\* any entity changed.  In the debug build onComponentDestroyed returns only if
\* bit t was set.
C16_DestroyDispatch ==
    [][\A e \in live : \A t \in Types :
         /\ (IsComponentCall("destroyComponent", e, t) /\ hasComponent(U, e, t)) =>
              /\ Cardinality(EventsOf(events', "destroy")) = 1
              /\ events'[1].ev = "destroy"
              /\ events'[1].e = e
              /\ events'[1].t = t
              /\ EventsOf(events', "componentDestroyed") # {} =>
                    /\ Len(events') = 2
                    /\ events'[2].ev = "componentDestroyed"
                    /\ events'[2].e = e
                    /\ events'[2].t = t
                    /\ ~hasComponent(U, e, t)'
                    /\ m_entities'[e + 1].components = m_entities[e + 1].components \ {t}
                    /\ OtherMasksKept(e)
         /\ (IsComponentCall("onComponentDestroyed", e, t) /\ asserts) =>
              hasComponent(U, e, t)]_vars

\* C16 witness: destroyComponent has taken component 0 from entity 1, which keeps
\* the other one, while entity 0 holds both
C16_Witness ==
    /\ Alive
    /\ last.op = "destroyComponent"
    /\ last.a = 1
    /\ last.b = 0
    /\ Len(events) = 2
    /\ events[2].ev = "componentDestroyed"
    /\ m_entities[2].components = Types \ {0}
    /\ m_entities[1].components = Types

----------------------------------------------------------------------------
(* Re-entrant listeners *)

NextReentrant ==
    \/ \E at \in TreePlaces : CreateEntity(at[1], at[2])
    \/ \E p \in live, c \in live : p # c /\ SetParent(p, c)
    \/ \E e \in live, victim \in live, trap \in BOOLEAN :
          SetPositionListening(e, 0, victim, trap)

SpecReentrant == InitWatch({"setPosition"}) /\ [][NextReentrant]_vars

\* C17: a setPosition whose entityTransformed listener destroys an unrelated
\* live entity returns, having used no hierarchy index beyond the table, and
\* leaves the free list, the hierarchy links and world = parent * local intact.
C17_ReentrancyTolerated ==
    [][(last'.op = "setPosition" /\ last'.ret >= 0) =>
          /\ status' = "ok"
          /\ FreeListExact'
          /\ PrevMirrorsNext'
          /\ C13_NodeIffLinked'
          /\ C4_WorldIsParentTimesLocal']_vars

----------------------------------------------------------------------------
(* Saving and loading universes with names, parents and free slots *)

SaveNamed == {0}

NextSave ==
    \/ \E p \in {1, 2} : (p = 1 \/ m_first_free_slot < 0) /\ CreateEntity(p, 0)
    \/ \E e \in live : DestroyEntity(e)
    \/ \E p \in live \cup {INVALID_ENTITY}, c \in live : p # c /\ SetParent(p, c)
    \/ \E e \in live \cap SaveNamed, n \in Names : SetEntityName(e, n)
    \/ Serialize
    \/ Reload

SpecSave == InitWatch({"serialize", "deserialize"}) /\ [][NextSave]_vars

\* the index the next createEntity returns
NextIndex == createEntity(U, 0, 0).ret

\* C18: a fresh Universe that deserializes what serialize wrote has the same
\* table size and valid flags, world transforms, names, hierarchy links and
\* local transforms, free-list head and links, so that its next createEntity
\* returns the same index; serialize changes nothing in the source.
C18_RoundTrip ==
    [][/\ (last'.op = "deserialize" /\ status' = "ok") =>
            /\ m_entities' = m_entities
            /\ m_transforms' = m_transforms
            /\ m_names' = m_names
            /\ m_hierarchy' = m_hierarchy
            /\ m_first_free_slot' = m_first_free_slot
            /\ NextIndex' = NextIndex
            /\ \A e \in live : SameEntity(e) /\ SameLinks(e)
       /\ (last'.op = "serialize" /\ status' = "ok") =>
            /\ Tables' = Tables
            /\ events' = <<>>]_vars

\* C18 witness: a universe with a named entity, a parent and child and a free
\* slot has been reloaded
C18_Witness ==
    /\ Alive
    /\ last.op = "deserialize"
    /\ Len(m_names) = 1
    /\ Len(m_hierarchy) = 2
    /\ m_first_free_slot >= 0
    /\ \E e \in live : m_transforms[e + 1].pos = 2

----------------------------------------------------------------------------
(* Prefabs: blobs of up to MaxEntities entries whose first entry is the    *)
(* root and whose parent references form no cycle, as the editor saves     *)
(* them.  A universe of entities that have not been moved is set up, with  *)
(* parents, a name and free slots, and a prefab is instantiated into it.   *)

PrefabLocals == {Transform(1, 0, 1), Transform(2, 1, MinusOne)}

PrefabPlacements == {Transform(1, 0, 1), Transform(2, 1, MinusOne)}

PrefabVersions == PrefabVersion_WITH_HIERARCHY .. (PrefabVersion_LAST + 1)

\* no entry carries a component, or the root type 0 and every other entry WheelType
PrefabComps(i, c) == IF c = 0 THEN <<>> ELSE IF i = 1 THEN <<0>> ELSE <<WheelType>>

\* entry i has a parent and reaches the root without meeting i again
RECURSIVE EntryReachesRoot(_, _, _)
EntryReachesRoot(parents, i, fuel) ==
    IF i = 1 THEN TRUE
    ELSE IF parents[i] = -1 THEN TRUE
    ELSE IF fuel = 0 THEN FALSE
    ELSE EntryReachesRoot(parents, parents[i] + 1, fuel - 1)

PrefabParents(n) ==
    {p \in [1 .. n -> -1 .. (n - 1)] :
        /\ n >= 1 => p[1] = -1
        /\ \A i \in 1 .. n : EntryReachesRoot(p, i, n)}

\* an entry without a parent holds no local transform
PrefabsOf(n) ==
    {[version |-> v, count |-> n,
      entries |-> [i \in 1 .. n |->
                      [parent |-> p[i],
                       local |-> IF p[i] = -1 THEN Identity ELSE l[i],
                       comps |-> PrefabComps(i, c)]]] :
        v \in PrefabVersions, p \in PrefabParents(n),
        l \in [1 .. n -> PrefabLocals], c \in 0 .. 1}

\* blobs older than the hierarchy hold no parent field, and of a blob newer
\* than the code nothing but the version is read
WellFormed(prefab) ==
    prefab.version # PrefabVersion_LAST =>
        \A i \in 1 .. prefab.count : prefab.entries[i].parent = -1

Prefabs == {prefab \in UNION {PrefabsOf(n) : n \in 0 .. MaxEntities} : WellFormed(prefab)}

\* the entities a call has created, in the order of their entityCreated events
Created(seq) == SelectSeq(seq, LAMBDA x : x.ev = "entityCreated")

Unmoved == \A i \in 1 .. Len(m_transforms) : m_transforms[i] = Identity

InstantiatePrefab(prefab, tr) ==
    /\ Alive
    /\ Unmoved
    /\ prefab.version > PrefabVersion_LAST
          \/ Cardinality(live) + prefab.count <= MaxEntities
    /\ LET u2 == instantiatePrefab(U, prefab, tr.pos, tr.rot, tr.scale)
           created == Created(u2.events)
       IN  Apply(u2, Call("instantiatePrefab", prefab, tr, u2.ret),
                 live \cup {created[i].e : i \in 1 .. Len(created)})

PrefabNamed == {0}

NextPrefab ==
    \/ Unmoved /\ CreateEntity(0, 0)
    \/ \E e \in live : Unmoved /\ DestroyEntity(e)
    \/ \E p \in live \cup {INVALID_ENTITY}, c \in live :
          Unmoved /\ p # c /\ SetParent(p, c)
    \/ \E e \in live \cap PrefabNamed : Unmoved /\ SetEntityName(e, "a")
    \/ \E prefab \in Prefabs, tr \in PrefabPlacements : InstantiatePrefab(prefab, tr)

SpecPrefab == InitWatch({"instantiatePrefab"}) /\ [][NextPrefab]_vars

\* the entity created for entry i (from 1) of the prefab, given the events
NewEntity(seq, i) == Created(seq)[i].e

\* C19: instantiating a prefab of a supported version with N >= 1 entries
\* creates exactly N entities that were not live, all of them before the first
\* component is deserialized, and returns the first; the returned entity is at
\* the caller's transform; every entry with a parent in the prefab is a child
\* of the entity created for the parent entry, its local transform is the
\* authored one and its world transform is world(parent) * local, whether the
\* parent entry comes earlier or later.
C19_PrefabInstantiated ==
    [][LET prefab == last'.a
           tr == last'.b
       IN  (/\ last'.op = "instantiatePrefab"
            /\ prefab.version <= PrefabVersion_LAST
            /\ prefab.count >= 1) =>
              /\ status' = "ok"
              /\ Len(Created(events')) = prefab.count
              /\ \A i \in 1 .. prefab.count :
                    /\ events'[i].ev = "entityCreated"
                    /\ NewEntity(events', i) \notin live
                    /\ NewEntity(events', i) \in live'
                    /\ m_entities'[NewEntity(events', i) + 1].valid
                    /\ \A j \in 1 .. prefab.count :
                          i # j => NewEntity(events', i) # NewEntity(events', j)
              /\ Cardinality(live') = Cardinality(live) + prefab.count
              /\ last'.ret = NewEntity(events', 1)
              /\ m_transforms'[last'.ret + 1] = tr
              /\ \A i \in 1 .. prefab.count :
                    LET entry == prefab.entries[i]
                        child == NewEntity(events', i)
                        parent == NewEntity(events', entry.parent + 1)
                    IN  (prefab.version > PrefabVersion_WITH_HIERARCHY
                         /\ entry.parent # -1) =>
                            /\ getParent(U', child) = parent
                            /\ getLocalTransform(U', child) = entry.local
                            /\ m_transforms'[child + 1]
                                   = TMul(m_transforms'[parent + 1], entry.local)]_vars

\* C19 witness: a prefab of three entries, the second a child of the third and
\* the third a child of the root, with a component on the root, has been
\* instantiated into reused slots, the root not in slot 0
C19_Witness ==
    /\ Alive
    /\ last.op = "instantiatePrefab"
    /\ last.a.version = PrefabVersion_LAST
    /\ last.a.count = 3
    /\ last.a.entries[2].parent = 2
    /\ last.a.entries[3].parent = 0
    /\ last.a.entries[1].comps # <<>>
    /\ last.ret # 0
    /\ getParent(U, NewEntity(events, 2)) = NewEntity(events, 3)

\* everything the universe holds
Registry == <<m_entities, m_transforms, m_hierarchy, m_names, m_first_free_slot, live>>

\* C20: instantiating a prefab whose version is newer than the last supported
\* one returns the invalid entity, creates no entity, fires no event, calls no
\* component method, and leaves entity table, transforms, free list, hierarchy
\* and names as they were.
C20_UnsupportedVersionRejected ==
    [][(last'.op = "instantiatePrefab" /\ last'.a.version > PrefabVersion_LAST) =>
          /\ status' = "ok"
          /\ last'.ret = INVALID_ENTITY
          /\ events' = <<>>
          /\ Registry' = Registry]_vars

\* C20 witness: a prefab of an unsupported version with three entries and
\* components was handed to a universe with a parent and child, a name and a
\* free slot
C20_Witness ==
    /\ Alive
    /\ last.op = "instantiatePrefab"
    /\ last.a.version > PrefabVersion_LAST
    /\ last.a.count = 3
    /\ last.a.entries[1].comps # <<>>
    /\ Len(m_hierarchy) = 2
    /\ Len(m_names) = 1
    /\ m_first_free_slot >= 0

----------------------------------------------------------------------------
(* Cloning: entities with a parent or a child, a name, components and a    *)
(* scale other than one, cloned into new and into reused slots.            *)

CloneNamed == {1}

NextClone ==
    \/ CreateEntity(1, 1)
    \/ DestroyEntity(0)
    \/ \E p \in live \cup {INVALID_ENTITY}, c \in live : p # c /\ SetParent(p, c)
    \/ \E e \in live \cap CloneNamed : SetScale(e, MinusOne)
    \/ \E e \in live \cap CloneNamed : SetEntityName(e, "a")
    \/ \E e \in live \cap CloneNamed, t \in Types : CreateComponent(t, e)
    \/ \E e \in live : CloneEntity(e)

SpecClone == InitWatch({"cloneEntity"}) /\ [][NextClone]_vars

\* the children of e, first child first
RECURSIVE SiblingsFrom(_, _, _)
SiblingsFrom(u, child, fuel) ==
    IF child = INVALID_ENTITY \/ fuel = 0 THEN <<>>
    ELSE <<child>> \o SiblingsFrom(u, getNextSibling(u, child), fuel - 1)

ChildrenOf(u, e) == SiblingsFrom(u, getFirstChild(u, e), Len(u.entities))

\* the types of a mask, ascending
Ascending(mask) ==
    [k \in 1 .. Cardinality(mask) |->
        CHOOSE t \in mask : Cardinality({x \in mask : x < t}) = k - 1]

\* the serialize and deserialize calls among the events, in order
Copies(seq) == SelectSeq(seq, LAMBDA x : x.ev \in {"serialize", "deserialize"})

\* C21: cloneEntity(e) returns an entity c that was not live, other than e,
\* with e's world transform and e's parent; for each type set on e, ascending,
\* serialize is called on e and then deserialize on c, once each; transform,
\* parent, children, name and mask of e are unchanged; c has no name and no
\* children.
C21_ClonePost ==
    [][\A e \in live :
          (last'.op = "cloneEntity" /\ last'.a = e) =>
              LET c == last'.ret
                  types == Ascending(m_entities[e + 1].components)
                  copies == Copies(events')
              IN  /\ status' = "ok"
                  /\ c \notin live
                  /\ c # e
                  /\ live' = live \cup {c}
                  /\ m_entities'[c + 1].valid
                  /\ m_transforms'[c + 1] = m_transforms[e + 1]
                  /\ getParent(U', c) = getParent(U, e)
                  /\ Len(copies) = 2 * Len(types)
                  /\ \A k \in 1 .. Len(types) :
                        /\ copies[2 * k - 1].ev = "serialize"
                        /\ copies[2 * k - 1].e = e
                        /\ copies[2 * k - 1].t = types[k]
                        /\ copies[2 * k].ev = "deserialize"
                        /\ copies[2 * k].e = c
                        /\ copies[2 * k].t = types[k]
                  /\ m_transforms'[e + 1] = m_transforms[e + 1]
                  /\ getParent(U', e) = getParent(U, e)
                  /\ ChildrenOf(U', e) = ChildrenOf(U, e)
                  /\ getEntityName(U', e) = getEntityName(U, e)
                  /\ m_entities'[e + 1].components = m_entities[e + 1].components
                  /\ m_entities'[c + 1].name = -1
                  /\ ChildrenOf(U', c) = <<>>]_vars

\* C21 witness: entity 1, a child of entity 2 with a name, every component and
\* a scale other than one, has been cloned into the reused slot 0
C21_Witness ==
    /\ Alive
    /\ last.op = "cloneEntity"
    /\ last.a = 1
    /\ last.ret = 0
    /\ getParent(U, 1) = 2
    /\ getParent(U, 0) = 2
    /\ getEntityName(U, 1) = "a"
    /\ m_entities[2].components = Types
    /\ m_transforms[2].scale = MinusOne
    /\ m_transforms[1] = m_transforms[2]

----------------------------------------------------------------------------
(* Naming: entities are named, renamed, given the empty name and destroyed *)
(* while others hold names, so that name slots move.                       *)

NextNames ==
    \/ CreateEntity(0, 0)
    \/ \E e \in live : DestroyEntity(e)
    \/ \E e \in live, n \in Names \cup {""} : SetEntityName(e, n)
    \/ \E e \in live : GetEntityName(e)

SpecNames == InitWatch({"setEntityName", "getEntityName"}) /\ [][NextNames]_vars

\* every name entry belongs to a live entity that points back at it
OneNamePerEntity ==
    \A i \in 1 .. Len(m_names) :
        /\ m_names[i].entity \in live
        /\ m_entities[m_names[i].entity + 1].name = i - 1

IsSetEntityName(e, n) ==
    /\ last'.op = "setEntityName"
    /\ last'.a = e
    /\ last'.b = n

\* C22: setEntityName(e, "") on an unnamed entity changes nothing;
\* setEntityName(e, s) otherwise takes a new slot at the end of the name table
\* when e has none and overwrites e's slot when it has one; no entity has two
\* entries; getEntityName(e) is the string of the last setEntityName(e, s)
\* since e was created, and "" when there was none: a new entity reads "",
\* the call sets what e reads, and no other call changes it.
C22_Naming ==
    [][/\ status' = "ok"
       /\ OneNamePerEntity'
       /\ \A e \in live' \ live : getEntityName(U', e) = ""
       /\ \A e \in live \cap live' :
             \/ getEntityName(U', e) = getEntityName(U, e)
             \/ last'.op = "setEntityName" /\ last'.a = e
       /\ \A e \in live : \A n \in Names \cup {""} :
             IsSetEntityName(e, n) =>
                LET name_idx == m_entities[e + 1].name
                IN  /\ getEntityName(U', e) = n
                    /\ (name_idx < 0 /\ n = "") => Tables' = Tables
                    /\ (name_idx < 0 /\ n # "") =>
                          /\ m_names' = Append(m_names, [entity |-> e, name |-> n])
                          /\ m_entities'[e + 1].name = Len(m_names)
                    /\ name_idx >= 0 =>
                          /\ m_entities'[e + 1].name = name_idx
                          /\ m_names' = [m_names EXCEPT ![name_idx + 1].name = n]
       /\ \A e \in live :
             (last'.op = "getEntityName" /\ last'.a = e) =>
                /\ last'.ret = getEntityName(U, e)
                /\ Tables' = Tables]_vars

\* C22 witness: an entity that had a name has been given the empty one and
\* keeps its slot, the second of two
C22_Witness ==
    /\ Alive
    /\ last.op = "setEntityName"
    /\ last.b = ""
    /\ Len(m_names) = 2
    /\ m_entities[last.a + 1].name = 1
    /\ m_first_free_slot >= 0

----------------------------------------------------------------------------
(* Lookup by name: entities with equal and different names, the empty name *)
(* and none, as roots, children and grandchildren.                         *)

FindNames == {"a", ""}

\* entities are named once; entity 0 alone is renamed to the empty name and destroyed
NextFind ==
    \/ CreateEntity(0, 0)
    \/ DestroyEntity(0)
    \/ \E p \in live \cup {INVALID_ENTITY}, c \in live : p # c /\ SetParent(p, c)
    \/ \E e \in live, n \in Names : m_entities[e + 1].name < 0 /\ SetEntityName(e, n)
    \/ 0 \in live /\ m_entities[1].name >= 0 /\ SetEntityName(0, "")
    \/ \E p \in live \cup {INVALID_ENTITY}, n \in FindNames : FindByName(p, n)

SpecFind == InitWatch({"findByName"}) /\ [][NextFind]_vars

\* e holds a name entry whose string is name
Named(e, name) ==
    /\ m_entities[e + 1].name >= 0
    /\ m_names[m_entities[e + 1].name + 1].name = name

IsFindByName(parent, name) ==
    /\ last'.op = "findByName"
    /\ last'.a = parent
    /\ last'.b = name

C24_FindRoot ==
    [][\A name \in FindNames :
          IsFindByName(INVALID_ENTITY, name) =>
             LET hits == {i \in 1 .. Len(m_names) :
                             /\ m_names[i].name = name
                             /\ getParent(U, m_names[i].entity) = INVALID_ENTITY}
             IN  /\ status' = "ok"
                 /\ hits = {} => last'.ret = INVALID_ENTITY
                 /\ hits # {} =>
                       /\ last'.ret = m_names[CHOOSE i \in hits : \A j \in hits : i <= j].entity
                       /\ last'.ret \in live
                       /\ m_entities[last'.ret + 1].valid
                       /\ Named(last'.ret, name)]_vars

\* C24 witness: the first entry of the name belongs to a child, the second to
\* a root, which was returned, after an entity was destroyed
C24_Witness ==
    /\ Alive
    /\ last.op = "findByName"
    /\ last.a = INVALID_ENTITY
    /\ last.b = "a"
    /\ last.ret # INVALID_ENTITY
    /\ Len(m_names) = 2
    /\ m_names[1].name = "a"
    /\ m_names[2].entity = last.ret
    /\ m_first_free_slot >= 0

----------------------------------------------------------------------------
(* Component reads: masks are built and taken apart while the five reads are  *)
(* called on every live entity.                                               *)

NextReads ==
    \/ CreateEntity(0, 0)
    \/ DestroyEntity(0)
    \/ \E e \in live, t \in Types : CreateComponent(t, e)
    \/ \E e \in live, t \in Types : DestroyComponent(e, t)
    \/ \E e \in live, t \in Types : HasComponent(e, t)
    \/ \E e \in live, t \in Types : GetComponent(e, t)
    \/ \E e \in live : GetComponentsMask(e)
    \/ \E e \in live : GetFirstComponent(e)
    \/ \E e \in live, cmp \in Types : GetNextComponent(e, cmp)

ComponentReads ==
    {"hasComponent", "getComponent", "getComponentsMask", "getFirstComponent",
     "getNextComponent"}

SpecReads == InitWatch(ComponentReads) /\ [][NextReads]_vars

\* for (cmp = getFirstComponent(e); cmp.isValid(); cmp = getNextComponent(cmp)):
\* the types visited from cmp on, in order, cut after fuel of them
RECURSIVE VisitFrom(_, _, _, _)
VisitFrom(u, entity, cmp, fuel) ==
    IF cmp < 0 \/ fuel = 0 THEN <<>>
    ELSE <<cmp>> \o VisitFrom(u, entity, getNextComponent(u, entity, cmp), fuel - 1)

Visited(u, entity) ==
    VisitFrom(u, entity, getFirstComponent(u, entity), MAX_TYPES_COUNT + 1)

\* C25: hasComponent, getComponent, getComponentsMask, getFirstComponent and
\* getNextComponent leave every table as it was and fire no event; they return
\* the presence of the bit, the handle or the invalid one, and the mask; and the
\* loop from getFirstComponent through getNextComponent visits exactly the
\* types whose bit is set, the lowest and the highest type id included, each
\* once and in ascending order, getNextComponent returning the invalid handle
\* after the last of them.
C25_ReadsArePure ==
    [][/\ last'.op \in ComponentReads =>
             /\ Tables' = Tables
             /\ live' = live
             /\ status' = "ok"
             /\ events' = <<>>
             /\ LET e == last'.a
                    mask == m_entities[e + 1].components
                IN  /\ last'.op = "hasComponent" => last'.ret = (last'.b \in mask)
                    /\ last'.op = "getComponent" =>
                          last'.ret = IF last'.b \in mask THEN last'.b ELSE -1
                    /\ last'.op = "getComponentsMask" => last'.ret = mask
                    /\ last'.op = "getFirstComponent" =>
                          last'.ret = IF mask = {} THEN -1
                                      ELSE CHOOSE t \in mask : \A o \in mask : t <= o
                    /\ last'.op = "getNextComponent" =>
                          LET above == {t \in mask : t > last'.b}
                          IN  last'.ret = IF above = {} THEN -1
                                          ELSE CHOOSE t \in above : \A o \in above : t <= o
       /\ \A e \in live' :
             LET mask == m_entities'[e + 1].components
                 seq == Visited(U', e)
             IN  /\ seq = Ascending(mask)
                 /\ {seq[i] : i \in 1 .. Len(seq)} = mask
                 /\ \A i, j \in 1 .. Len(seq) : i < j => seq[i] < seq[j]
                 /\ Len(seq) > 0 => getNextComponent(U', e, seq[Len(seq)]) = -1]_vars

\* C25 witness: getNextComponent has just been called with the lowest type of
\* an entity holding the lowest and the highest type, and returned the highest
C25_Witness ==
    /\ last.op = "getNextComponent"
    /\ last.b = 0
    /\ last.ret = MAX_TYPES_COUNT - 1
    /\ m_entities[last.a + 1].components = Types
    /\ Visited(U, last.a) = <<0, MAX_TYPES_COUNT - 1>>

----------------------------------------------------------------------------
(* Double destroy: entities with parents, names and components are destroyed, *)
(* and destroyEntity is called again on destroyed indices; the build whose     *)
(* assertions are active.                                                     *)

DoubleNamed == {0}

NextDouble ==
    \/ CreateEntity(0, 0)
    \/ \E e \in live : DestroyEntity(e)
    \/ \E e \in Indices : DestroyEntityAgain(e)
    \/ \E e \in live \cap DoubleNamed : SetEntityName(e, "a")
    \/ \E e \in live \cap DoubleNamed : CreateComponent(0, e)
    \/ \E c \in live : c # 0 /\ 0 \in live /\ SetParent(0, c)

SpecDouble == InitWatch({"destroyEntity"}) /\ [][NextDouble]_vars

\* C26: in a build whose assertions are active, destroyEntity(e) on a slot that
\* is not valid stops at the validity assertion: the call does not return, no
\* table is written, no listener is invoked, and e is not pushed onto the free
\* list again - the free list keeps holding every invalid slot exactly once.
C26_DoubleDestroyAsserts ==
    [][/\ \A e \in Indices :
            (/\ asserts
             /\ last'.op = "destroyEntity"
             /\ last'.a = e
             /\ ~m_entities[e + 1].valid) =>
                /\ status' = "assert"
                /\ Tables' = Tables
                /\ live' = live
                /\ events' = <<>>
       /\ asserts =>
            /\ Len(FreeList') = Cardinality(InvalidSlots')
            /\ {FreeList'[i] : i \in 1 .. Len(FreeList')} = InvalidSlots']_vars

\* C26 witness: the debug build has stopped in destroyEntity called on the head
\* of the free list, a destroyed slot, while another entity is live
C26_Witness ==
    /\ asserts
    /\ status = "assert"
    /\ last.op = "destroyEntity"
    /\ m_first_free_slot = last.a
    /\ ~m_entities[last.a + 1].valid
    /\ live # {}
    /\ Len(FreeList) = 2

----------------------------------------------------------------------------
(* Attribute reads on destroyed slots: entities are created away from the     *)
(* origin, named, linked, equipped and destroyed, and the eight reads are     *)
(* called on every index of the table; the build whose assertions are active. *)

AttributeReads ==
    {"getPosition", "getRotation", "getTransform", "getScale", "getEntityName",
     "getParent", "getFirstChild", "getComponentsMask"}

NextStale ==
    \/ CreateEntity(1, 1)
    \/ \E e \in live : DestroyEntity(e)
    \/ 0 \in live /\ SetEntityName(0, "a")
    \/ 0 \in live /\ CreateComponent(0, 0)
    \/ 0 \in live /\ 1 \in live /\ SetParent(0, 1)
    \/ \E e \in Indices : GetPosition(e)
    \/ \E e \in Indices : GetRotation(e)
    \/ \E e \in Indices : GetTransform(e)
    \/ \E e \in Indices : GetScale(e)
    \/ \E e \in Indices : GetEntityName(e)
    \/ \E e \in Indices : GetParent(e)
    \/ \E e \in Indices : GetFirstChild(e)
    \/ \E e \in Indices : GetComponentsMask(e)

SpecStale == InitWatch(AttributeReads) /\ [][NextStale]_vars

\* C27: getPosition, getRotation, getTransform, getScale, getEntityName,
\* getParent, getFirstChild or getComponentsMask called with the index of a
\* destroyed slot ends in an assertion failure and returns no value.
C27_StaleReadAsserts ==
    [][\A e \in Indices :
         (/\ last'.op \in AttributeReads
          /\ last'.a = e
          /\ ~m_entities[e + 1].valid) => status' = "assert"]_vars

----------------------------------------------------------------------------
(* Local setters on every entity with a hierarchy node: children under a      *)
(* parent and parents that have no parent themselves; both builds.            *)

LocalSetters == {"setLocalTransform", "setLocalPosition", "setLocalRotation"}

\* what the memory in front of m_transforms may hold
Before == {Identity, Transform(1, 0, 1)}

LocalTo == Transform(2, 1, 1)

\* no entity has been moved since it was created
AtRest == \A i \in 1 .. Len(m_transforms) : m_transforms[i] = Transform(1, 0, 1)

NextLocal ==
    \/ AtRest /\ m_first_free_slot < 0 /\ CreateEntity(1, 0)
    \/ \E p \in live \cup {INVALID_ENTITY}, c \in live :
          AtRest /\ p # c /\ SetParent(p, c)
    \/ \E e \in live : HasParent(e) /\ SetLocalTransform(e, LocalTo)
    \/ \E e \in live : HasParent(e) /\ SetLocalPosition(e, 2)
    \/ \E e \in live : HasParent(e) /\ SetLocalRotation(e, 1)
    \/ \E e \in live, before \in Before : SetLocalTransformRoot(e, LocalTo, before)
    \/ \E e \in live, before \in Before : SetLocalPositionRoot(e, 2, before)
    \/ \E e \in live, before \in Before : SetLocalRotationRoot(e, 1, before)

SpecLocal == InitAnyBuild(LocalSetters) /\ [][NextLocal]_vars

\* the local transform the call last'.op(e, last'.b) stores in the node of e
StoredLocal(e) ==
    LET old == getLocalTransform(U, e)
    IN  IF last'.op = "setLocalTransform" THEN last'.b
        ELSE IF last'.op = "setLocalPosition" THEN [old EXCEPT !.pos = last'.b]
        ELSE [old EXCEPT !.rot = last'.b]

\* C28: setLocalTransform, setLocalPosition or setLocalRotation on a live entity
\* with a hierarchy node returns without an assertion failure, whether the
\* entity has a parent or only children; the entity's world transform becomes
\* parent * local (the local transform itself when there is no parent), and
\* every entity below a parent has world = world(parent) * local afterwards.
C28_LocalSettersOnAnyNode ==
    [][\A e \in live :
         (/\ last'.op \in LocalSetters
          /\ last'.a = e
          /\ m_entities[e + 1].hierarchy >= 0) =>
            /\ status' = "ok"
            /\ getLocalTransform(U', e) = StoredLocal(e)
            /\ m_transforms'[e + 1]
                 = IF HasParent(e)
                   THEN TMul(m_transforms[getParent(U, e) + 1], StoredLocal(e))
                   ELSE StoredLocal(e)
            /\ \A c \in live :
                 getParent(U', c) # INVALID_ENTITY =>
                    m_transforms'[c + 1]
                      = TMul(m_transforms'[getParent(U', c) + 1], getLocalTransform(U', c))]_vars

----------------------------------------------------------------------------
(* Moved events: trees of up to three entities are built at rest and then     *)
(* moved by the four world setters, on roots, inner entities and leaves;      *)
(* setPosition goes on after any move.                                        *)

Movers == {"setTransform", "setPosition", "setRotation", "setScale"}

NextMoved ==
    \/ AtRest /\ CreateEntity(1, 0)
    \/ \E p \in live, c \in live : AtRest /\ p # c /\ SetParent(p, c)
    \/ \E e \in live : AtRest /\ SetTransform(e, LocalTo)
    \/ \E e \in live : SetPosition(e, 2)
    \/ \E e \in live : AtRest /\ SetRotation(e, 1)
    \/ \E e \in live : AtRest /\ SetScale(e, MinusOne)

SpecMoved == InitWatch(Movers) /\ [][NextMoved]_vars

\* the places of entity x in the event trace seq
FiredFor(seq, x) == {i \in 1 .. Len(seq) : seq[i].e = x}

\* C29: one call of setTransform, setPosition, setRotation or setScale on e
\* invokes entityTransformed and nothing else: exactly once for e, exactly once
\* for every descendant of e, for no other entity, and for every descendant
\* after the event of its parent.
C29_MovedEvents ==
    [][\A e \in live :
         (last'.op \in Movers /\ last'.a = e) =>
            LET subtree == {e} \cup Descendants(e)
            IN  /\ status' = "ok"
                /\ \A i \in 1 .. Len(events') : events'[i].ev = "entityTransformed"
                /\ \A x \in subtree : Cardinality(FiredFor(events', x)) = 1
                /\ \A x \in live \ subtree : FiredFor(events', x) = {}
                /\ Len(events') = Cardinality(subtree)
                /\ events'[1].e = e
                /\ \A x \in Descendants(e) :
                      \A i \in FiredFor(events', x) :
                         \A j \in FiredFor(events', getParent(U, x)) : j < i]_vars

\* C29 witness: setScale has moved entity 0, the middle of the chain
\* 1 <- 0 <- 2: two events, for 0 and then for 2, none for the root 1
C29_Witness ==
    /\ last.op = "setScale"
    /\ last.a = 0
    /\ live = {0, 1, 2}
    /\ getParent(U, 0) = 1
    /\ getParent(U, 2) = 0
    /\ Len(events) = 2
    /\ events[1].e = 0
    /\ events[2].e = 2

----------------------------------------------------------------------------
(* What a listener finds: entities are created, emplaced, named, linked,      *)
(* equipped and destroyed, and every event of a call is recorded with the     *)
(* state of its entity at the moment of the invoke.                           *)

Lifecycle ==
    {"createEntity", "emplaceEntity", "destroyEntity", "createComponent",
     "destroyComponent"}

NextEvents ==
    \/ CreateEntity(1, 1)
    \/ EmplaceEntity(MaxEntities - 1)
    \/ \E e \in live : DestroyEntity(e)
    \/ 0 \in live /\ SetEntityName(0, "a")
    \/ 0 \in live /\ 1 \in live /\ SetParent(1, 0)
    \/ 0 \in live /\ CreateComponent(0, 0)
    \/ 0 \in live /\ DestroyComponent(0, 0)

SpecEvents == InitWatch(Lifecycle) /\ [][NextEvents]_vars

\* the events of the call that are deliveries to listeners of the universe
Delivered(seq) ==
    {i \in 1 .. Len(seq) :
        seq[i].ev \in {"entityCreated", "entityDestroyed", "componentAdded",
                       "componentDestroyed"}}

\* C30: every event is delivered after the bookkeeping of its mutation.  At
\* entityCreated(e) the slot is valid, off the free list, without name,
\* hierarchy node or component, as it is when the call returns; at
\* entityDestroyed(e) the slot is invalid, without name entry or hierarchy
\* node, and the head of the free list, so that a createEntity made at that
\* moment returns e and leaves the free list and the name table sound; at
\* componentAdded(e, t) bit t of e is set and at componentDestroyed(e, t) it is
\* clear.
C30_EventsAfterBookkeeping ==
    [][/\ \A i \in Delivered(events') :
            LET x == events'[i]
            IN  /\ x.ev = "entityCreated" =>
                     /\ x.valid
                     /\ x.name = -1
                     /\ x.hier = -1
                     /\ x.mask = {}
                     /\ ~x.linked
                     /\ x.head # x.e
                     /\ x.head = m_first_free_slot'
                     /\ i = Len(events')
                     /\ x = Event(U', "entityCreated", x.e, -1)
                /\ x.ev = "entityDestroyed" =>
                     /\ ~x.valid
                     /\ x.name = -1
                     /\ x.hier = -1
                     /\ ~x.linked
                     /\ x.head = x.e
                     /\ i = Len(events')
                     /\ x = Event(U', "entityDestroyed", x.e, -1)
                     /\ \A k \in 1 .. Len(m_names') : m_names'[k].entity # x.e
                     /\ createEntity(U', 0, 0).ret = x.e
                /\ x.ev = "componentAdded" => x.t \in x.mask
                /\ x.ev = "componentDestroyed" => x.t \notin x.mask
       /\ (last'.op = "createEntity" /\ last.op = "destroyEntity") =>
             last'.ret = last.a
       /\ last'.op \in {"createEntity", "emplaceEntity"} =>
             /\ Len(events') = 1
             /\ events'[1].ev = "entityCreated"
             /\ events'[1].e = last'.ret
       /\ last'.op = "destroyEntity" =>
             /\ Cardinality({i \in 1 .. Len(events') : events'[i].ev = "entityDestroyed"}) = 1
             /\ events'[Len(events')].e = last'.a
       /\ FreeListExact'
       /\ PrevMirrorsNext'
       /\ OneNamePerEntity']_vars

\* C30 witness: destroyEntity has taken the named entity 0 with its component:
\* the destroy callback ran while 0 was valid and named, componentDestroyed
\* found the bit clear, and entityDestroyed found 0 invalid, nameless and at
\* the head of a free list that goes on behind it, while another entity lives
C30_Witness ==
    /\ last.op = "destroyEntity"
    /\ last.a = 0
    /\ Len(events) = 3
    /\ events[1].ev = "destroy"
    /\ events[1].valid
    /\ events[1].name >= 0
    /\ events[2].ev = "componentDestroyed"
    /\ events[2].mask = {}
    /\ events[3].ev = "entityDestroyed"
    /\ ~events[3].valid
    /\ events[3].head = 0
    /\ m_entities[1].next >= 0
    /\ live # {}

----------------------------------------------------------------------------
(* What a listener of entityTransformed finds: trees are built at rest and    *)
(* moved by setTransform and setPosition while the listener reads the world   *)
(* and local transforms of every entity.                                      *)

NextObserved ==
    \/ AtRest /\ CreateEntity(1, 0)
    \/ \E p \in live, c \in live : AtRest /\ p # c /\ SetParent(p, c)
    \/ \E e \in live : AtRest /\ SetTransformObserved(e, LocalTo)
    \/ \E e \in live : SetPositionObserved(e, 2)

SpecObserved == InitWatch({"setTransform", "setPosition"}) /\ [][NextObserved]_vars

\* in the tables seen, entity c has a parent and its world transform is its
\* parent's times its local one
SeenConsistent(seen, c) ==
    LET idx == seen.entities[c + 1].hierarchy
        h == seen.hierarchy[idx + 1]
    IN  (idx >= 0 /\ h.parent # INVALID_ENTITY) =>
            seen.transforms[c + 1]
              = TMul(seen.transforms[h.parent + 1], h.local_transform)

\* C31: when entityTransformed(e) is delivered during setTransform or
\* setPosition on e, the local transform of e is already the one of its new
\* world transform, and every entity with a parent, the descendants of e
\* included, has world = world(parent) * local.
C31_ConsistentWhenObserved ==
    [][\A e \in live :
         (last'.op \in {"setTransform", "setPosition"} /\ last'.a = e) =>
            \A c \in live : SeenConsistent(last'.ret, c)]_vars

----------------------------------------------------------------------------
(* Child lists: every setParent over live entities, the one naming the child  *)
(* as its own parent included, and destroyEntity.                            *)

NextChildren ==
    \/ CreateEntity(0, 0)
    \/ \E p \in live \cup {INVALID_ENTITY}, c \in live : SetParent(p, c)
    \/ \E e \in live : DestroyEntity(e)

SpecChildren == InitWatch({"setParent", "destroyEntity"}) /\ [][NextChildren]_vars

\* the chain getFirstChild(p), getNextSibling, ... cut one past the table size
ChildChain(u, p) == SiblingsFrom(u, getFirstChild(u, p), Len(u.entities) + 1)

\* seq without the element x
Without(seq, x) == SelectSeq(seq, LAMBDA y : y # x)

\* C32: after any sequence of setParent and destroyEntity calls, for every
\* entity p the chain getFirstChild(p), getNextSibling, ... ends, holds exactly
\* the entities whose parent is p, each once; an accepted setParent(p, c)
\* leaves the chain of p as c followed by what the chain held before without
\* c, and the chain of c's former parent as it was without c.
C32_ChildLists ==
    [][/\ \A p \in live' :
            LET chain == ChildChain(U', p)
            IN  /\ Len(chain) <= Len(m_entities')
                /\ \A i, j \in 1 .. Len(chain) : i # j => chain[i] # chain[j]
                /\ {chain[i] : i \in 1 .. Len(chain)}
                     = {c \in live' : getParent(U', c) = p}
       /\ \A c \in live : \A p \in live :
            (Accepted /\ IsSetParent(p, c)) =>
               LET old == getParent(U, c)
               IN  /\ ChildChain(U', p) = <<c>> \o Without(ChildChain(U, p), c)
                   /\ (old # INVALID_ENTITY /\ old # p) =>
                         ChildChain(U', old) = Without(ChildChain(U, old), c)]_vars

\* C32 witness: an accepted setParent(0, 2) has put 2 in front of 1 in the
\* child list of 0, whose node is not the first of the table
C32_Witness ==
    /\ status = "ok"
    /\ last.op = "setParent"
    /\ last.a = 0
    /\ last.b = 2
    /\ ChildChain(U, 0) = <<2, 1>>
    /\ m_hierarchy[1].entity # 0

----------------------------------------------------------------------------
(* Termination: every setParent over live entities, the world setters and     *)
(* destroyEntity.  The setters write the values the entities already have;   *)
(* the walks they make do not depend on the values.                           *)

Walkers ==
    {"setParent", "setTransform", "setPosition", "setRotation", "setScale",
     "destroyEntity"}

NextWalks ==
    \/ m_first_free_slot < 0 /\ CreateEntity(0, 0)
    \/ \E p \in live \cup {INVALID_ENTITY}, c \in live : SetParent(p, c)
    \/ \E e \in live : SetTransform(e, Identity)
    \/ \E e \in live : SetPosition(e, 0)
    \/ \E e \in live : SetRotation(e, 0)
    \/ \E e \in live : SetScale(e, 1)
    \/ \E e \in live : DestroyEntity(e)

SpecWalks == InitWatch(Walkers) /\ [][NextWalks]_vars

\* C33: after any sequence of operations on live entities, every call of
\* setParent, setTransform, setPosition, setRotation, setScale and
\* destroyEntity returns: no walk of the hierarchy goes on without end.
C33_Terminates ==
    [][last'.op \in Walkers => status' = "ok"]_vars

\* C34: after any sequence of setParent and destroyEntity calls the entity
\* stored in node i of the hierarchy table has hierarchy index i, so no two
\* nodes belong to one entity, and every slot whose hierarchy index is >= 0
\* is a live entity pointing inside the table at the node that names it.
C34_BackReferences ==
    /\ \A i \in 1 .. Len(m_hierarchy) :
          /\ m_hierarchy[i].entity \in live
          /\ m_entities[m_hierarchy[i].entity + 1].hierarchy = i - 1
    /\ \A i, j \in 1 .. Len(m_hierarchy) :
          i # j => m_hierarchy[i].entity # m_hierarchy[j].entity
    /\ \A e \in Indices :
          m_entities[e + 1].hierarchy >= 0 =>
             /\ e \in live
             /\ m_entities[e + 1].hierarchy < Len(m_hierarchy)
             /\ m_hierarchy[m_entities[e + 1].hierarchy + 1].entity = e

\* C34 witness: setParent(none, 0) has removed the node of entity 0, and the
\* node of entity 2, a child of 1, stands where the table began
C34_Witness ==
    /\ status = "ok"
    /\ last.op = "setParent"
    /\ last.a = INVALID_ENTITY
    /\ last.b = 0
    /\ live = {0, 1, 2}
    /\ m_entities[1].hierarchy = -1
    /\ Len(m_hierarchy) = 2
    /\ m_hierarchy[1].entity = 2
    /\ m_hierarchy[1].parent = 1
    /\ m_entities[3].hierarchy = 0

----------------------------------------------------------------------------
(* References: named entities in trees, every setParent over live entities,   *)
(* destroyEntity of any of them and reuse of the slots.                       *)

RefNamed == {0, 1}

NextRefs ==
    \/ CreateEntity(0, 0)
    \/ \E p \in live \cup {INVALID_ENTITY}, c \in live : SetParent(p, c)
    \/ \E e \in live \cap RefNamed : m_entities[e + 1].name < 0 /\ SetEntityName(e, "a")
    \/ \E e \in live : DestroyEntity(e)

SpecRefs == InitWatch({"destroyEntity"}) /\ [][NextRefs]_vars

\* the entities that the hierarchy table and the name table of u refer to
Referenced(u) ==
    UNION {{u.hierarchy[i].entity, u.hierarchy[i].parent, u.hierarchy[i].first_child,
            u.hierarchy[i].next_sibling} \ {INVALID_ENTITY} : i \in 1 .. Len(u.hierarchy)}
      \cup {u.names[i].entity : i \in 1 .. Len(u.names)}

\* C35: when destroyEntity(e) has returned, no hierarchy node names e as its
\* entity, parent, first child or next sibling and no name entry names e; and
\* after every call every entity that a hierarchy node or a name entry refers
\* to is live.
C35_NoDanglingReferences ==
    [][/\ \A e \in live :
            (last'.op = "destroyEntity" /\ last'.a = e /\ status' = "ok") =>
                /\ e \notin live'
                /\ e \notin Referenced(U')
       /\ Referenced(U') \subseteq live']_vars

\* C35 witness: destroyEntity has taken entity 0, which was named, while the
\* named entity 1 and entity 2 are still linked to each other
C35_Witness ==
    /\ status = "ok"
    /\ last.op = "destroyEntity"
    /\ last.a = 0
    /\ live = {1, 2}
    /\ Len(m_names) = 1
    /\ m_names[1].entity = 1
    /\ Referenced(U) = {1, 2}

\* every name entry belongs to a slot whose name index is the entry's place,
\* and every slot with a name index points inside the table at its own entry
NameTableSound ==
    /\ \A i \in 1 .. Len(m_names) :
          /\ m_names[i].entity \in Indices
          /\ m_entities[m_names[i].entity + 1].name = i - 1
    /\ \A e \in Indices :
          m_entities[e + 1].name >= 0 =>
             /\ m_entities[e + 1].name < Len(m_names)
             /\ m_names[m_entities[e + 1].name + 1].entity = e

\* C36: after any sequence of setEntityName, createEntity and destroyEntity
\* calls, entry i of the name table belongs to an entity whose name index is i
\* and every entity with a name index points at its own entry; destroyEntity
\* of a named entity moves the last entry into the place of the entity's entry
\* (or just drops the entry when it is the last), gives the moved entry's
\* owner that place, and leaves the name of every other entity as it was; a
\* destroyEntity of an unnamed entity leaves the table as it was.
C36_NameTable ==
    [][/\ NameTableSound'
       /\ \A e \in live :
            live' = live \ {e} =>
               LET name_idx == m_entities[e + 1].name
                   n == Len(m_names)
               IN  /\ \A x \in live' : getEntityName(U', x) = getEntityName(U, x)
                   /\ name_idx < 0 => m_names' = m_names
                   /\ name_idx >= 0 =>
                         /\ Len(m_names') = n - 1
                         /\ \A i \in 1 .. (n - 1) :
                               m_names'[i] = IF i = name_idx + 1 THEN m_names[n]
                                             ELSE m_names[i]
                         /\ name_idx + 1 < n =>
                               m_entities'[m_names[n].entity + 1].name = name_idx]_vars

\* C36 witness: entity 0, the owner of the first of three entries, is
\* destroyed: the entry of entity 2 stands in its place, that of 1 behind it
C36_Witness ==
    /\ status = "ok"
    /\ live = {1, 2}
    /\ m_first_free_slot = 0
    /\ Len(m_names) = 2
    /\ m_names[1] = [entity |-> 2, name |-> "a"]
    /\ m_names[2] = [entity |-> 1, name |-> "b"]
    /\ m_entities[3].name = 0

----------------------------------------------------------------------------
(* The moved subtree: trees of up to three entities, some of them named and   *)
(* one with a component, are built at rest and then moved by the four world   *)
(* setters, on roots, inner entities, leaves and entities outside any tree.   *)

NextSubtree ==
    \/ AtRest /\ CreateEntity(1, 0)
    \/ \E p \in live, c \in live : AtRest /\ p # c /\ SetParent(p, c)
    \/ \E e \in live \cap {1, 2} :
          AtRest /\ m_entities[e + 1].name < 0 /\ SetEntityName(e, "a")
    \/ 1 \in live /\ AtRest /\ m_entities[2].components = {} /\ CreateComponent(0, 1)
    \/ \E e \in live : AtRest /\ SetTransform(e, LocalTo)
    \/ \E e \in live : SetPosition(e, 2)
    \/ \E e \in live : AtRest /\ SetRotation(e, 1)
    \/ \E e \in live : AtRest /\ SetScale(e, MinusOne)

SpecSubtree == InitWatch(Movers) /\ [][NextSubtree]_vars

\* the world transform the call last'.op(e, last'.b) stores for e
StoredWorld(e) ==
    LET old == m_transforms[e + 1]
    IN  IF last'.op = "setTransform" THEN last'.b
        ELSE IF last'.op = "setPosition" THEN [old EXCEPT !.pos = last'.b]
        ELSE IF last'.op = "setRotation" THEN [old EXCEPT !.rot = last'.b]
        ELSE [old EXCEPT !.scale = last'.b]

\* C37: setTransform, setPosition, setRotation or setScale on e returns with
\* the new world transform stored for e; world transforms change for e and for
\* descendants of e only, the local transform of no entity but e changes, and
\* no parent, first-child or sibling link, no name, no component mask, no
\* validity flag, no free-list link and no table size changes; on an entity
\* without a hierarchy node nothing but e's stored transform changes.
C37_OnlyTheSubtreeMoves ==
    [][\A e \in live :
         (last'.op \in Movers /\ last'.a = e) =>
            LET subtree == {e} \cup Descendants(e)
            IN  /\ status' = "ok"
                /\ m_transforms'[e + 1] = StoredWorld(e)
                /\ live' = live
                /\ m_names' = m_names
                /\ m_first_free_slot' = m_first_free_slot
                /\ Len(m_entities') = Len(m_entities)
                /\ Len(m_hierarchy') = Len(m_hierarchy)
                /\ \A i \in 1 .. Len(m_entities) : m_entities'[i] = m_entities[i]
                /\ \A x \in live \ subtree : m_transforms'[x + 1] = m_transforms[x + 1]
                /\ \A x \in live \ {e} : getLocalTransform(U', x) = getLocalTransform(U, x)
                /\ \A x \in live :
                      /\ getParent(U', x) = getParent(U, x)
                      /\ getFirstChild(U', x) = getFirstChild(U, x)
                      /\ getNextSibling(U', x) = getNextSibling(U, x)
                      /\ getEntityName(U', x) = getEntityName(U, x)
                /\ m_entities[e + 1].hierarchy < 0 =>
                      /\ m_hierarchy' = m_hierarchy
                      /\ \A x \in live \ {e} : m_transforms'[x + 1] = m_transforms[x + 1]]_vars

\* C37 witness: setRotation has turned entity 0, the middle of the chain
\* 1 <- 0 <- 2 whose root 1 is named and has a component: 0 and 2 have moved,
\* the root is where it was
C37_Witness ==
    /\ last.op = "setRotation"
    /\ last.a = 0
    /\ status = "ok"
    /\ live = {0, 1, 2}
    /\ getParent(U, 0) = 1
    /\ getParent(U, 2) = 0
    /\ getEntityName(U, 1) = "a"
    /\ m_entities[2].components # {}
    /\ m_transforms[1].rot = 1
    /\ m_transforms[3] # Transform(1, 0, 1)
    /\ m_transforms[2] = Transform(1, 0, 1)

\* the indices from .. to, the last one first: the order in which the slots
\* synthesized by emplaceEntity come to stand on the free list
Synthesized(from, to) == [i \in 1 .. (to - from + 1) |-> to - i + 1]

\* C38: createEntity with a free slot returns the head of the free list,
\* takes it off the list and does not grow the table; with an empty free list
\* it returns the old table size and the table grows by exactly one slot; the
\* table grows in createEntity only then. The head is the free index that was
\* freed last: destroyEntity(e) puts e in front of the list, and emplaceEntity
\* puts the slots it synthesizes in front of it, the highest first, and takes
\* its own index out.
C38_LastInFirstOut ==
    [][/\ (last'.op = "createEntity" /\ status' = "ok") =>
             /\ m_first_free_slot >= 0 =>
                   /\ last'.ret = m_first_free_slot
                   /\ last'.ret = Head(FreeList)
                   /\ FreeList' = Tail(FreeList)
                   /\ Len(m_entities') = Len(m_entities)
                   /\ Len(m_transforms') = Len(m_transforms)
             /\ m_first_free_slot < 0 =>
                   /\ last'.ret = Len(m_entities)
                   /\ Len(m_entities') = Len(m_entities) + 1
                   /\ Len(m_transforms') = Len(m_transforms) + 1
                   /\ FreeList' = <<>>
             /\ live' = live \cup {last'.ret}
       /\ (last'.op = "destroyEntity" /\ status' = "ok") =>
             /\ FreeList' = <<last'.a>> \o FreeList
             /\ Len(m_entities') = Len(m_entities)
       /\ (last'.op = "emplaceEntity" /\ status' = "ok") =>
             FreeList' = Without(Synthesized(Len(m_entities), last'.a) \o FreeList,
                                 last'.a)]_vars

\* C38 witness: with the slots 1 and 0 on the free list in this order, 1 in
\* front, createEntity has returned 1 and left 0 as the head; the table has
\* kept its three slots
C38_Witness ==
    /\ last.op = "createEntity"
    /\ last.ret = 1
    /\ status = "ok"
    /\ Len(m_entities) = 3
    /\ live = {1, 2}
    /\ FreeList = <<0>>

----------------------------------------------------------------------------
(* Moving a parent alone: trees of up to three entities are built at rest,    *)
(* entities are shifted by setPosition, and setTransformKeepChildren is       *)
(* called on roots, inner entities, leaves and entities outside any tree.     *)

NextKeep ==
    \/ AtRest /\ CreateEntity(1, 0)
    \/ \E p \in live, c \in live : AtRest /\ p # c /\ SetParent(p, c)
    \/ \E e \in live : SetPosition(e, 2)
    \/ \E e \in live : SetTransformKeepChildren(e, LocalTo)

SpecKeep == InitWatch({"setTransformKeepChildren"}) /\ [][NextKeep]_vars

\* C39: setTransformKeepChildren(e, t) returns with t as the world transform of
\* e and with the world transform of every other entity, the children and
\* deeper descendants of e among them, unchanged; the local transform of e is
\* inverse(world(parent)) * t when e has a parent, the local transform of each
\* direct child c of e is inverse(t) * world(c), and every entity with a parent
\* has world = world(parent) * local afterwards; entityTransformed is invoked
\* once, for e, and no other event is.
C39_KeepChildren ==
    [][\A e \in live :
         (last'.op = "setTransformKeepChildren" /\ last'.a = e) =>
            LET t == last'.b
            IN  /\ status' = "ok"
                /\ m_transforms'[e + 1] = t
                /\ \A x \in live \ {e} : m_transforms'[x + 1] = m_transforms[x + 1]
                /\ HasParent(e) =>
                      getLocalTransform(U', e)
                        = TMul(TInv(m_transforms[getParent(U, e) + 1]), t)
                /\ \A c \in live :
                      /\ getParent(U', c) = getParent(U, c)
                      /\ getParent(U, c) = e =>
                            getLocalTransform(U', c) = TMul(TInv(t), m_transforms[c + 1])
                      /\ (c # e /\ getParent(U, c) # e) =>
                            getLocalTransform(U', c) = getLocalTransform(U, c)
                      /\ getParent(U', c) # INVALID_ENTITY =>
                            m_transforms'[c + 1]
                              = TMul(m_transforms'[getParent(U', c) + 1],
                                     getLocalTransform(U', c))
                /\ Len(events') = 1
                /\ events'[1].ev = "entityTransformed"
                /\ events'[1].e = e]_vars

\* C39 witness: setTransformKeepChildren has turned entity 0, the middle of
\* the chain 1 <- 0 <- 2, away from its child 2, which is still where it was:
\* the local transform of 2 is no longer the identity
C39_Witness ==
    /\ last.op = "setTransformKeepChildren"
    /\ last.a = 0
    /\ status = "ok"
    /\ live = {0, 1, 2}
    /\ getParent(U, 0) = 1
    /\ getParent(U, 2) = 0
    /\ m_transforms[1] = LocalTo
    /\ m_transforms[3] = Transform(1, 0, 1)
    /\ getLocalTransform(U, 2) = TMul(TInv(LocalTo), Transform(1, 0, 1))
    /\ getLocalTransform(U, 2) # Identity

----------------------------------------------------------------------------
(* Local reads: trees of up to three entities are built at rest, entities are *)
(* detached, shifted and scaled, and the local transform and the local scale  *)
(* of every live entity are read.                                             *)

LocalReads == {"getLocalTransform", "getLocalScale"}

\* what the memory of a fresh hierarchy node may hold: the world transform the
\* entities have at rest, or another one
FreshLocals == {Transform(1, 0, 1), Identity}

NextLocalRead ==
    \/ AtRest /\ CreateEntity(1, 0)
    \/ \E p \in live, c \in live, fresh \in FreshLocals :
          AtRest /\ p # c /\ SetParentOn(p, c, fresh)
    \/ \E c \in live : HasParent(c) /\ SetParent(INVALID_ENTITY, c)
    \/ \E e \in live : SetPosition(e, 2)
    \/ \E e \in live : AtRest /\ SetScale(e, MinusOne)
    \/ \E e \in live : GetLocalTransform(e)
    \/ \E e \in live : GetLocalScale(e)

SpecLocalRead == InitWatch(LocalReads) /\ [][NextLocalRead]_vars

\* C40: getLocalTransform of a live entity without a parent returns the
\* entity's world transform and getLocalScale its world scale, whether the
\* entity has no hierarchy node or has one because it has children (the reads
\* change nothing, so the state after the call is the state it has read).
C40_RootLocalIsWorld ==
    \A e \in live :
       (last.op \in LocalReads /\ last.a = e /\ ~HasParent(e)) =>
          /\ last.op = "getLocalTransform" => last.ret = m_transforms[e + 1]
          /\ last.op = "getLocalScale" => last.ret = m_transforms[e + 1].scale

====
